---- MODULE Spec2Model ----
(***************************************************************************)
(* A model of the farm game: the crop catalog and constants (config.py),   *)
(* the Crop, Farm and Player models, the save system with its offline      *)
(* reconciliation pass, and the application session of main.py.            *)
(*                                                                         *)
(* Time is the integer `now` (seconds since the epoch); each handler reads *)
(* the clock at one instant.  A Python dict is a sequence of entries in    *)
(* insertion order; Python's None (an empty plot) is the value None.       *)
(***************************************************************************)
EXTENDS Integers, Sequences, FiniteSets, TLC

VARIABLES
    now,        \* time.time()
    farm,       \* the Farm object in use
    player,     \* the Player object in use
    disk,       \* the content of SAVE_FILE
    last,       \* the last call: its name, arguments, pre-state and result
    passes,     \* calls of _process_offline_time in this session
    app         \* the FarmGame application: where its session stands

vars == <<now, farm, player, disk, last, passes, app>>

----------------------------------------------------------------------------
(* config.py *)

STARTING_COINS == 100
STARTING_UNLOCKED_CROPS == {"RADISH", "CARROT"}
STARTING_FARM_SIZE == <<4, 4>>
XP_PER_LEVEL == 100
XP_PER_HARVEST == 10
MAX_OFFLINE_TIME == 86400
MIN_OFFLINE_TIME_TO_PROCESS == 10

CropConfig(name, growth_time, seed_cost, sell_price, unlock_level) ==
    [name |-> name, growth_time |-> growth_time, seed_cost |-> seed_cost,
     sell_price |-> sell_price, unlock_level |-> unlock_level]

CROPS ==
    [RADISH  |-> CropConfig("Radish", 30, 10, 15, 1),
     CARROT  |-> CropConfig("Carrot", 60, 20, 35, 1),
     WHEAT   |-> CropConfig("Wheat", 120, 30, 60, 2),
     TOMATO  |-> CropConfig("Tomato", 180, 50, 100, 3),
     CORN    |-> CropConfig("Corn", 300, 80, 180, 5),
     PUMPKIN |-> CropConfig("Pumpkin", 600, 150, 400, 7)]

CropTypes == DOMAIN CROPS

AUTO_SAVE_INTERVAL == 30

(* The module as it is written: the settings validate_config reads.  The   *)
(* multiplier is kept in tenths.                                           *)
TheConfig ==
    [CROPS |-> CROPS, XP_PER_LEVEL |-> XP_PER_LEVEL,
     XP_PER_HARVEST |-> XP_PER_HARVEST,
     AUTO_SAVE_INTERVAL |-> AUTO_SAVE_INTERVAL,
     OFFLINE_REWARD_MULTIPLIER |-> 7]

(* validate_config over the settings c: the value returned, the crops and  *)
(* settings logged as errors, and the crops logged with a warning.         *)
validate_config(c) ==
    IF DOMAIN c.CROPS = {}
    THEN [is_valid |-> FALSE, errors |-> {"CROPS"}, warnings |-> {}]
    ELSE LET crop_errors ==
                 {k \in DOMAIN c.CROPS :
                     \/ c.CROPS[k].growth_time <= 0
                     \/ c.CROPS[k].seed_cost < 0
                     \/ c.CROPS[k].sell_price < 0
                     \/ c.CROPS[k].unlock_level < 1}
             warnings ==
                 {k \in DOMAIN c.CROPS :
                     c.CROPS[k].sell_price - c.CROPS[k].seed_cost < 0}
             errors ==
                 crop_errors
                 \cup (IF c.XP_PER_LEVEL <= 0 THEN {"XP_PER_LEVEL"} ELSE {})
                 \cup (IF c.XP_PER_HARVEST <= 0 THEN {"XP_PER_HARVEST"} ELSE {})
                 \cup (IF c.AUTO_SAVE_INTERVAL <= 0
                       THEN {"AUTO_SAVE_INTERVAL"} ELSE {})
                 \cup (IF c.OFFLINE_REWARD_MULTIPLIER < 0
                          \/ c.OFFLINE_REWARD_MULTIPLIER > 10
                       THEN {"OFFLINE_REWARD_MULTIPLIER"} ELSE {})
         IN  [is_valid |-> errors = {}, errors |-> errors,
              warnings |-> warnings]

(* OFFLINE_REWARD_MULTIPLIER = 0.7 is the IEEE-754 double                  *)
(* 0xB333333333333 * 2^-52, kept here as three limbs of its significand:   *)
(* bits 51..40, bits 39..20 and bits 19..0.                                *)
MultHi == 2867
MultMid == 209715
MultLo == 209715
Limb == 2 ^ 20

RECURSIVE BitLen(_)
BitLen(n) == IF n <= 0 THEN 0 ELSE 1 + BitLen(n \div 2)

(* int(p * OFFLINE_REWARD_MULTIPLIER) for an int p >= 0: the exact product *)
(* is rounded to a 53-bit significand (round half to even), then int()     *)
(* truncates.                                                              *)
IntOfTimesMultiplier(p) ==
    LET l0 == p * MultLo
        d0 == l0 % Limb
        l1 == p * MultMid + (l0 \div Limb)
        d1 == l1 % Limb
        d2 == p * MultHi + (l1 \div Limb)
        s  == BitLen(d2) - 13
    IN  IF s <= 0
        THEN d2 \div 4096
        ELSE LET low  == d0 % (2 ^ s)
                 half == 2 ^ (s - 1)
                 odd  == (d0 \div (2 ^ s)) % 2 = 1
                 up   == low > half \/ (low = half /\ odd)
                 e0   == d0 - low + (IF up THEN 2 ^ s ELSE 0)
                 e1   == d1 + (e0 \div Limb)
                 e2   == d2 + (e1 \div Limb)
             IN  e2 \div 4096

----------------------------------------------------------------------------
(* models/crop.py *)

None == [crop_type |-> "None", planted_at |-> 0 - 1]

(* Crop.__init__: the crop, or "raised" for a ValueError. *)
(* a constructor that checks the kind and takes any timestamp *)
CropRaisesKindOnly(crop_type, planted_at) ==
    crop_type \notin CropTypes

CropRaises(crop_type, planted_at) ==
    crop_type \notin CropTypes \/ planted_at < 0

Crop(crop_type, planted_at) ==
    [crop_type |-> crop_type, planted_at |-> planted_at]

config(crop) == CROPS[crop.crop_type]

(* Crop(crop_type, planted_at): the crop constructed, or the ValueError *)
CropInit(crop_type, planted_at) ==
    IF CropRaises(crop_type, planted_at)
    THEN [raised |-> TRUE, crop |-> None]
    ELSE [raised |-> FALSE, crop |-> Crop(crop_type, planted_at)]

(* A float that is the quotient of two integers, kept as the quotient:     *)
(* the clock counts whole seconds and growth times are whole seconds, so   *)
(* elapsed / growth_time is the double nearest to num / den, and so is     *)
(* each of the literals 0.2, 0.4, 0.6, 0.8 and 1.0 to its own quotient.    *)
(* Two quotients of integers this small that differ are further apart      *)
(* than one rounding step, so comparing the doubles is comparing the       *)
(* quotients.                                                              *)
Quotient(num, den) == [num |-> num, den |-> den]
Less(a, b) == a.num * b.den < b.num * a.den
AtLeast(a, b) == ~Less(a, b)

(* growth_progress that lets the quotient go below zero *)
growth_progress_signed(crop, t) ==
    Quotient(t - crop.planted_at, config(crop).growth_time)

(* Crop.growth_progress at time t: max(0.0, elapsed / growth_time) *)
growth_progress(crop, t) ==
    LET elapsed  == t - crop.planted_at
        progress == Quotient(elapsed, config(crop).growth_time)
    IN  IF Less(Quotient(0, 1), progress) THEN progress ELSE Quotient(0, 1)

(* is_ready that wants the progress to be past 1.0 *)
is_ready_strict(crop, t) == Less(Quotient(1, 1), growth_progress(crop, t))

(* Crop.is_ready at time t: growth_progress >= 1.0 *)
is_ready(crop, t) == AtLeast(growth_progress(crop, t), Quotient(1, 1))

(* current_stage that shows READY for the last fifth of the growth *)
current_stage_almost(crop, t) ==
    IF is_ready(crop, t)
    THEN "READY"
    ELSE LET progress == growth_progress(crop, t)
         IN  IF Less(progress, Quotient(1, 5)) THEN "PLANTED"
             ELSE IF Less(progress, Quotient(2, 5)) THEN "SPROUTING"
             ELSE IF Less(progress, Quotient(3, 5)) THEN "GROWING"
             ELSE IF Less(progress, Quotient(4, 5)) THEN "FLOWERING"
             ELSE "READY"

(* Crop.current_stage at time t *)
current_stage(crop, t) ==
    IF is_ready(crop, t)
    THEN "READY"
    ELSE LET progress == growth_progress(crop, t)
         IN  IF Less(progress, Quotient(1, 5)) THEN "PLANTED"
             ELSE IF Less(progress, Quotient(2, 5)) THEN "SPROUTING"
             ELSE IF Less(progress, Quotient(3, 5)) THEN "GROWING"
             ELSE IF Less(progress, Quotient(4, 5)) THEN "FLOWERING"
             ELSE "FLOWERING"

(* Crop.to_dict and Crop.from_dict: the dict has the crop's two fields;    *)
(* from_dict goes through Crop.__init__ and raises as it does.             *)
crop_to_dict(crop) ==
    [crop_type |-> crop.crop_type, planted_at |-> crop.planted_at]

(* data['crop_type'] or data['planted_at'] raises KeyError, or the         *)
(* constructor raises ValueError                                           *)
crop_from_dict_raises(data) ==
    \/ \E k \in {"crop_type", "planted_at"} : k \notin DOMAIN data
    \/ CropRaises(data.crop_type, data.planted_at)

crop_from_dict(data) == Crop(data.crop_type, data.planted_at)

----------------------------------------------------------------------------
(* models/farm.py *)

HasKey(plots, pos) == \E i \in 1..Len(plots) : plots[i].pos = pos

IndexOf(plots, pos) == CHOOSE i \in 1..Len(plots) : plots[i].pos = pos

(* plots[pos] *)
GetPlot(plots, pos) == plots[IndexOf(plots, pos)].crop

(* plots[pos] = crop: in place for a key the dict holds, appended otherwise *)
SetPlot(plots, pos, crop) ==
    IF HasKey(plots, pos)
    THEN [plots EXCEPT ![IndexOf(plots, pos)].crop = crop]
    ELSE Append(plots, [pos |-> pos, crop |-> crop])

(* Farm.__init__: for x in range(width): for y in range(height) *)
Farm(width, height) ==
    [width  |-> width,
     height |-> height,
     plots  |-> IF width <= 0 \/ height <= 0
                THEN <<>>
                ELSE [i \in 1..(width * height) |->
                        [pos  |-> <<(i - 1) \div height, (i - 1) % height>>,
                         crop |-> None]]]

_is_valid_position(f, x, y) ==
    0 <= x /\ x < f.width /\ 0 <= y /\ y < f.height

(* plant_crop without the occupancy test: it replaces the crop in place *)
plant_crop_over(f, x, y, crop_type, t) ==
    IF ~_is_valid_position(f, x, y)
    THEN [farm |-> f, ret |-> FALSE, raised |-> FALSE]
    ELSE IF ~HasKey(f.plots, <<x, y>>)
    THEN [farm |-> f, ret |-> FALSE, raised |-> TRUE]
    ELSE IF CropRaises(crop_type, t)
    THEN [farm |-> f, ret |-> FALSE, raised |-> TRUE]
    ELSE [farm   |-> [f EXCEPT !.plots = SetPlot(@, <<x, y>>, Crop(crop_type, t))],
          ret    |-> GetPlot(f.plots, <<x, y>>) = None,
          raised |-> FALSE]

(* plant_crop that stores the crop under the transposed key (y, x) *)
plant_crop_transposed(f, x, y, crop_type, t) ==
    IF ~_is_valid_position(f, x, y)
    THEN [farm |-> f, ret |-> FALSE, raised |-> FALSE]
    ELSE IF ~HasKey(f.plots, <<x, y>>)
    THEN [farm |-> f, ret |-> FALSE, raised |-> TRUE]
    ELSE IF GetPlot(f.plots, <<x, y>>) # None
    THEN [farm |-> f, ret |-> FALSE, raised |-> FALSE]
    ELSE IF CropRaises(crop_type, t)
    THEN [farm |-> f, ret |-> FALSE, raised |-> TRUE]
    ELSE [farm   |-> [f EXCEPT !.plots = SetPlot(@, <<y, x>>, Crop(crop_type, t))],
          ret    |-> TRUE,
          raised |-> FALSE]

(* Farm.plant_crop at time t: the farm afterwards, the value returned, and *)
(* whether the call raised (Crop.__init__'s ValueError, or a KeyError).    *)
plant_crop(f, x, y, crop_type, t) ==
    IF ~_is_valid_position(f, x, y)
    THEN [farm |-> f, ret |-> FALSE, raised |-> FALSE]
    ELSE IF ~HasKey(f.plots, <<x, y>>)
    THEN [farm |-> f, ret |-> FALSE, raised |-> TRUE]
    ELSE IF GetPlot(f.plots, <<x, y>>) # None
    THEN [farm |-> f, ret |-> FALSE, raised |-> FALSE]
    ELSE IF CropRaises(crop_type, t)
    THEN [farm |-> f, ret |-> FALSE, raised |-> TRUE]
    ELSE [farm   |-> [f EXCEPT !.plots = SetPlot(@, <<x, y>>, Crop(crop_type, t))],
          ret    |-> TRUE,
          raised |-> FALSE]

(* harvest_crop that returns the crop and leaves it in its plot *)
harvest_crop_kept(f, x, y) ==
    IF ~_is_valid_position(f, x, y)
    THEN [farm |-> f, ret |-> None]
    ELSE [farm |-> f, ret |-> GetPlot(f.plots, <<x, y>>)]

(* Farm.harvest_crop: the farm afterwards and the crop returned (or None) *)
harvest_crop(f, x, y) ==
    IF ~_is_valid_position(f, x, y)
    THEN [farm |-> f, ret |-> None]
    ELSE IF GetPlot(f.plots, <<x, y>>) = None
    THEN [farm |-> f, ret |-> None]
    ELSE [farm |-> [f EXCEPT !.plots = SetPlot(@, <<x, y>>, None)],
          ret  |-> GetPlot(f.plots, <<x, y>>)]

(* Farm.get_crop *)
get_crop(f, x, y) ==
    IF ~_is_valid_position(f, x, y)
    THEN None
    ELSE IF HasKey(f.plots, <<x, y>>) THEN GetPlot(f.plots, <<x, y>>) ELSE None

(* Farm.get_ready_crops at time t: the (x, y, crop) of the ready crops in  *)
(* the order of plots                                                      *)
get_ready_crops(f, t) ==
    LET ready == SelectSeq(f.plots,
                           LAMBDA e : e.crop # None /\ is_ready(e.crop, t))
    IN  [i \in 1..Len(ready) |->
            <<ready[i].pos[1], ready[i].pos[2], ready[i].crop>>]

(* expand that refuses only when both dimensions would shrink *)
expand_both(f, new_width, new_height) ==
    IF new_width < f.width /\ new_height < f.height
    THEN [farm |-> f, ret |-> FALSE]
    ELSE [farm |-> [width  |-> new_width,
                    height |-> new_height,
                    plots  |-> f.plots \o
                               SelectSeq(Farm(new_width, new_height).plots,
                                         LAMBDA e : ~HasKey(f.plots, e.pos))],
          ret  |-> TRUE]

(* expand that lays out a new grid *)
expand_fresh(f, new_width, new_height) ==
    IF new_width < f.width \/ new_height < f.height
    THEN [farm |-> f, ret |-> FALSE]
    ELSE [farm |-> Farm(new_width, new_height), ret |-> TRUE]

(* expand that stores the new dimensions and adds no plot *)
expand_dims_only(f, new_width, new_height) ==
    IF new_width < f.width \/ new_height < f.height
    THEN [farm |-> f, ret |-> FALSE]
    ELSE [farm |-> [f EXCEPT !.width = new_width, !.height = new_height],
          ret  |-> TRUE]

(* Farm.expand: the farm afterwards and the value returned *)
expand(f, new_width, new_height) ==
    IF new_width < f.width \/ new_height < f.height
    THEN [farm |-> f, ret |-> FALSE]
    ELSE [farm |-> [width  |-> new_width,
                    height |-> new_height,
                    plots  |-> f.plots \o
                               SelectSeq(Farm(new_width, new_height).plots,
                                         LAMBDA e : ~HasKey(f.plots, e.pos))],
          ret  |-> TRUE]

(* str(n) of an int, as the sequence of its characters *)
DigitChars == <<"0", "1", "2", "3", "4", "5", "6", "7", "8", "9">>

RECURSIVE Digits(_)
Digits(n) ==
    IF n < 10
    THEN <<DigitChars[n + 1]>>
    ELSE Digits(n \div 10) \o <<DigitChars[(n % 10) + 1]>>

str_int(n) == IF n < 0 THEN <<"-">> \o Digits(0 - n) ELSE Digits(n)

(* f"{x},{y}" *)
format_key(x, y) == str_int(x) \o <<",">> \o str_int(y)

(* coord_str.split(','): the parts between the commas *)
RECURSIVE split_comma(_)
split_comma(chars) ==
    IF \A i \in 1..Len(chars) : chars[i] # ","
    THEN <<chars>>
    ELSE LET i == CHOOSE j \in 1..Len(chars) :
                      chars[j] = "," /\ \A k \in 1..(j - 1) : chars[k] # ","
         IN  <<SubSeq(chars, 1, i - 1)>> \o
             split_comma(SubSeq(chars, i + 1, Len(chars)))

DigitValue(ch) == (CHOOSE d \in 1..10 : DigitChars[d] = ch) - 1

IsDigit(ch) == \E d \in 1..10 : DigitChars[d] = ch

RECURSIVE DigitsValue(_)
DigitsValue(chars) ==
    IF chars = <<>>
    THEN 0
    ELSE 10 * DigitsValue(SubSeq(chars, 1, Len(chars) - 1))
         + DigitValue(chars[Len(chars)])

(* int(part): an optional sign and decimal digits; anything else raises *)
int_raises(chars) ==
    LET body == IF chars # <<>> /\ chars[1] \in {"-", "+"} THEN Tail(chars) ELSE chars
    IN  body = <<>> \/ \E i \in 1..Len(body) : ~IsDigit(body[i])

int_of(chars) ==
    IF chars[1] = "-" THEN 0 - DigitsValue(Tail(chars))
    ELSE IF chars[1] = "+" THEN DigitsValue(Tail(chars))
    ELSE DigitsValue(chars)

(* Farm.to_dict: plots keyed by "x,y", in the order of the dict *)
farm_to_dict(f) ==
    [width  |-> f.width,
     height |-> f.height,
     plots  |-> [i \in 1..Len(f.plots) |->
                   [key   |-> format_key(f.plots[i].pos[1], f.plots[i].pos[2]),
                    value |-> IF f.plots[i].crop # None
                              THEN crop_to_dict(f.plots[i].crop)
                              ELSE None]]]

(* The key read as (y, x) *)
key_pos_swapped(key) == <<int_of(split_comma(key)[2]), int_of(split_comma(key)[1])>>

(* x, y = map(int, coord_str.split(',')) raises unless there are two ints *)
key_raises(key) ==
    \/ Len(split_comma(key)) # 2
    \/ \E i \in 1..2 : int_raises(split_comma(key)[i])

key_pos(key) == <<int_of(split_comma(key)[1]), int_of(split_comma(key)[2])>>

(* The loop of Farm.from_dict over data['plots'].items(), from entry i:    *)
(* the farm afterwards, or raised.                                         *)
RECURSIVE RestoreCrops(_, _, _)
RestoreCrops(f, entries, i) ==
    IF i > Len(entries)
    THEN [raised |-> FALSE, farm |-> f]
    ELSE IF key_raises(entries[i].key)
    THEN [raised |-> TRUE, farm |-> f]
    ELSE IF entries[i].value = None
    THEN RestoreCrops(f, entries, i + 1)
    ELSE IF crop_from_dict_raises(entries[i].value)
    THEN [raised |-> TRUE, farm |-> f]
    ELSE RestoreCrops(
             [f EXCEPT !.plots = SetPlot(@, key_pos(entries[i].key),
                                         crop_from_dict(entries[i].value))],
             entries, i + 1)

(* Farm.from_dict: a missing key raises KeyError *)
farm_from_dict(data) ==
    IF \E k \in {"width", "height", "plots"} : k \notin DOMAIN data
    THEN [raised |-> TRUE, farm |-> None]
    ELSE RestoreCrops(Farm(data.width, data.height), data.plots, 1)

----------------------------------------------------------------------------
(* models/player.py *)

Player(coins, experience, level, planted, harvested, unlocked) ==
    [coins |-> coins, experience |-> experience, level |-> level,
     total_crops_planted |-> planted, total_crops_harvested |-> harvested,
     unlocked_crops |-> IF unlocked = {} THEN STARTING_UNLOCKED_CROPS ELSE unlocked]

NewPlayer == Player(STARTING_COINS, 0, 1, 0, 0, {})

(* add_coins that credits nothing *)
add_coins_lost(p, amount) == p

add_coins(p, amount) == [p EXCEPT !.coins = @ + amount]

(* spend_coins that wants more coins than the amount *)
spend_coins_strict(p, amount) ==
    IF p.coins > amount
    THEN [player |-> [p EXCEPT !.coins = @ - amount], ret |-> TRUE]
    ELSE [player |-> p, ret |-> FALSE]

(* Player.spend_coins: the player afterwards and the value returned *)
spend_coins(p, amount) ==
    IF p.coins >= amount
    THEN [player |-> [p EXCEPT !.coins = @ - amount], ret |-> TRUE]
    ELSE [player |-> p, ret |-> FALSE]

xp_for_next_level(p) == p.level * XP_PER_LEVEL

(* The loop that keeps the threshold of the level the call started at *)
RECURSIVE LevelUpStale(_, _)
LevelUpStale(p, levels_gained) ==
    IF p.experience >= (p.level - levels_gained) * XP_PER_LEVEL
    THEN LevelUpStale([p EXCEPT !.experience = @ - (p.level - levels_gained) * XP_PER_LEVEL,
                                !.level = @ + 1],
                      levels_gained + 1)
    ELSE [player |-> p, ret |-> levels_gained]

(* The loop that stops when the experience equals the threshold *)
RECURSIVE LevelUpStrict(_, _)
LevelUpStrict(p, levels_gained) ==
    IF p.experience > xp_for_next_level(p)
    THEN LevelUpStrict([p EXCEPT !.experience = @ - xp_for_next_level(p),
                                 !.level = @ + 1],
                       levels_gained + 1)
    ELSE [player |-> p, ret |-> levels_gained]

(* The while loop of add_experience, with levels_gained so far *)
RECURSIVE LevelUp(_, _)
LevelUp(p, levels_gained) ==
    IF p.experience >= xp_for_next_level(p)
    THEN LevelUp([p EXCEPT !.experience = @ - xp_for_next_level(p),
                           !.level = @ + 1],
                 levels_gained + 1)
    ELSE [player |-> p, ret |-> levels_gained]

(* Player.add_experience: the player afterwards and the levels gained *)
add_experience(p, amount) == LevelUp([p EXCEPT !.experience = @ + amount], 0)

unlock_crop(p, crop_type) == [p EXCEPT !.unlocked_crops = @ \cup {crop_type}]

(* list(a_set): the elements in some order *)
RECURSIVE list_of(_)
list_of(S) ==
    IF S = {}
    THEN <<>>
    ELSE LET x == CHOOSE e \in S : TRUE IN <<x>> \o list_of(S \ {x})

(* set(a_list) *)
set_of(seq) == {seq[i] : i \in 1..Len(seq)}

(* Player.to_dict: unlocked_crops is written as a list *)
player_to_dict(p) ==
    [coins |-> p.coins, experience |-> p.experience, level |-> p.level,
     total_crops_planted |-> p.total_crops_planted,
     total_crops_harvested |-> p.total_crops_harvested,
     unlocked_crops |-> list_of(p.unlocked_crops)]

(* Player.from_dict raises KeyError for a missing key *)
player_from_dict_raises(data) ==
    \E k \in {"coins", "experience", "level", "total_crops_planted",
               "total_crops_harvested", "unlocked_crops"} : k \notin DOMAIN data

(* Player.from_dict: the list comes back as a set *)
player_from_dict(data) ==
    Player(data.coins, data.experience, data.level, data.total_crops_planted,
           data.total_crops_harvested, set_of(data.unlocked_crops))

----------------------------------------------------------------------------
(* systems/save_system.py *)

ZeroSummary == [offline_time |-> 0, auto_harvested |-> <<>>, total_coins |-> 0]

(* The coins an auto-harvest pays for a crop. *)
coins_earned(crop) == IntOfTimesMultiplier(config(crop).sell_price)

(* The visit that starts the growth of an unripe crop again at time t. *)
OfflineVisitRestarts(acc, item, t) ==
    IF item.crop = None
    THEN acc
    ELSE IF t - item.crop.planted_at >= config(item.crop).growth_time
    THEN [farm   |-> [acc.farm EXCEPT !.plots = SetPlot(@, item.pos, None)],
          player |-> [add_coins(acc.player, coins_earned(item.crop))
                        EXCEPT !.total_crops_harvested = @ + 1],
          auto_harvested |->
              Append(acc.auto_harvested,
                     <<config(item.crop).name, coins_earned(item.crop)>>),
          total_coins |-> acc.total_coins + coins_earned(item.crop)]
    ELSE [acc EXCEPT !.farm.plots =
                         SetPlot(@, item.pos, Crop(item.crop.crop_type, t))]

(* The visit with > for >=: a crop exactly growth_time old is left. *)
OfflineVisitStrict(acc, item, t) ==
    IF item.crop = None
    THEN acc
    ELSE IF t - item.crop.planted_at > config(item.crop).growth_time
    THEN [farm   |-> [acc.farm EXCEPT !.plots = SetPlot(@, item.pos, None)],
          player |-> [add_coins(acc.player, coins_earned(item.crop))
                        EXCEPT !.total_crops_harvested = @ + 1],
          auto_harvested |->
              Append(acc.auto_harvested,
                     <<config(item.crop).name, coins_earned(item.crop)>>),
          total_coins |-> acc.total_coins + coins_earned(item.crop)]
    ELSE acc

(* The visit that pays for a ready crop and leaves it in its plot. *)
OfflineVisitKeepsCrop(acc, item, t) ==
    IF item.crop = None
    THEN acc
    ELSE IF t - item.crop.planted_at >= config(item.crop).growth_time
    THEN [farm   |-> acc.farm,
          player |-> [add_coins(acc.player, coins_earned(item.crop))
                        EXCEPT !.total_crops_harvested = @ + 1],
          auto_harvested |->
              Append(acc.auto_harvested,
                     <<config(item.crop).name, coins_earned(item.crop)>>),
          total_coins |-> acc.total_coins + coins_earned(item.crop)]
    ELSE acc

(* The iteration that credits a finished crop as a manual harvest does *)
OfflineVisitGrantsXp(acc, item, t) ==
    IF item.crop = None
    THEN acc
    ELSE IF t - item.crop.planted_at >= config(item.crop).growth_time
    THEN [farm   |-> [acc.farm EXCEPT !.plots = SetPlot(@, item.pos, None)],
          player |-> [add_experience(add_coins(acc.player,
                                               coins_earned(item.crop)),
                                     XP_PER_HARVEST).player
                        EXCEPT !.total_crops_harvested = @ + 1],
          auto_harvested |->
              Append(acc.auto_harvested,
                     <<config(item.crop).name, coins_earned(item.crop)>>),
          total_coins |-> acc.total_coins + coins_earned(item.crop)]
    ELSE acc

(* The iteration that clears and pays a finished crop without counting it *)
OfflineVisitUncounted(acc, item, t) ==
    IF item.crop = None
    THEN acc
    ELSE IF t - item.crop.planted_at >= config(item.crop).growth_time
    THEN [farm   |-> [acc.farm EXCEPT !.plots = SetPlot(@, item.pos, None)],
          player |-> add_coins(acc.player, coins_earned(item.crop)),
          auto_harvested |->
              Append(acc.auto_harvested,
                     <<config(item.crop).name, coins_earned(item.crop)>>),
          total_coins |-> acc.total_coins + coins_earned(item.crop)]
    ELSE acc

(* One iteration of the loop over list(farm.plots.items()): entry i of the *)
(* copy, on the accumulated farm, player, auto_harvested and total_coins.  *)
OfflineVisit(acc, item, t) ==
    IF item.crop = None
    THEN acc
    ELSE IF t - item.crop.planted_at >= config(item.crop).growth_time
    THEN [farm   |-> [acc.farm EXCEPT !.plots = SetPlot(@, item.pos, None)],
          player |-> [add_coins(acc.player, coins_earned(item.crop))
                        EXCEPT !.total_crops_harvested = @ + 1],
          auto_harvested |->
              Append(acc.auto_harvested,
                     <<config(item.crop).name, coins_earned(item.crop)>>),
          total_coins |-> acc.total_coins + coins_earned(item.crop)]
    ELSE acc

RECURSIVE OfflineLoop(_, _, _, _)
OfflineLoop(acc, items, i, t) ==
    IF i > Len(items)
    THEN acc
    ELSE OfflineLoop(OfflineVisit(acc, items[i], t), items, i + 1, t)

(* min that returns its first argument *)
MinFirst(a, b) == a

Min(a, b) == IF a <= b THEN a ELSE b

(* The pass without the short-gap return. *)
_process_offline_time_ungated(f, p, last_save, t) ==
    LET offline_time == Min(t - last_save, MAX_OFFLINE_TIME)
        acc == OfflineLoop([farm |-> f, player |-> p,
                            auto_harvested |-> <<>>, total_coins |-> 0],
                           f.plots, 1, t)
    IN  [farm    |-> acc.farm,
         player  |-> acc.player,
         summary |-> [offline_time   |-> offline_time,
                      auto_harvested |-> acc.auto_harvested,
                      total_coins    |-> acc.total_coins]]

(* SaveSystem._process_offline_time(farm, player, last_save) at time t:    *)
(* the farm and the player afterwards, and the summary returned.           *)
_process_offline_time(f, p, last_save, t) ==
    LET offline_time == Min(t - last_save, MAX_OFFLINE_TIME)
    IN  IF offline_time < MIN_OFFLINE_TIME_TO_PROCESS
        THEN [farm |-> f, player |-> p, summary |-> ZeroSummary]
        ELSE LET acc == OfflineLoop([farm |-> f, player |-> p,
                                     auto_harvested |-> <<>>, total_coins |-> 0],
                                    f.plots, 1, t)
             IN  [farm    |-> acc.farm,
                  player  |-> acc.player,
                  summary |-> [offline_time   |-> offline_time,
                               auto_harvested |-> acc.auto_harvested,
                               total_coins    |-> acc.total_coins]]

(* SAVE_FILE: no file, a file that is not JSON, or the JSON text of a dict. *)
NoFile == [kind |-> "missing"]

NotJson == [kind |-> "text"]

JsonFile(data) == [kind |-> "json", data |-> data]

(* save_game that stamps the file MIN_OFFLINE_TIME_TO_PROCESS seconds early *)
save_game_stale(f, p, t) ==
    JsonFile([version   |-> 1,
              last_save |-> t - MIN_OFFLINE_TIME_TO_PROCESS,
              farm      |-> farm_to_dict(f),
              player    |-> player_to_dict(p)])

(* SaveSystem.save_game at time t: the file afterwards *)
save_game(f, p, t) ==
    JsonFile([version   |-> 1,
              last_save |-> t,
              farm      |-> farm_to_dict(f),
              player    |-> player_to_dict(p)])

(* What the operating system does with the calls of one save_game:        *)
(* everything succeeds, os.makedirs fails, open fails, or the write fails  *)
(* after the file was truncated.                                           *)
OsOutcomes == {"ok", "makedirs fails", "open fails", "write fails"}

(* SaveSystem.save_game at time t over the file that is there: the file    *)
(* afterwards, the value returned, and whether the call raised.            *)
(* ensure_save_directory runs before the try; it calls os.makedirs only if *)
(* SAVE_DIR does not exist, and then no SAVE_FILE exists either.           *)
save_game_os(f, p, t, file, os) ==
    IF os = "makedirs fails" /\ file.kind = "missing"
    THEN [file |-> file, ret |-> FALSE, raised |-> TRUE]
    ELSE IF os = "open fails"
    THEN [file |-> file, ret |-> FALSE, raised |-> FALSE]
    ELSE IF os = "write fails"
    THEN [file |-> NotJson, ret |-> FALSE, raised |-> FALSE]
    ELSE [file |-> save_game(f, p, t), ret |-> TRUE, raised |-> FALSE]

(* load_game answering a failed load with a new game of its own *)
NewGameLoaded ==
    [loaded  |-> TRUE,
     farm    |-> Farm(STARTING_FARM_SIZE[1], STARTING_FARM_SIZE[2]),
     player  |-> NewPlayer,
     summary |-> ZeroSummary,
     passes  |-> 0]

(* load_game returning None *)
NoGame == [loaded |-> FALSE, passes |-> 0]

(* load_game returns None from inside its try: json.load fails, a         *)
(* top-level key is missing, or Farm.from_dict or Player.from_dict raises. *)
load_raises(file) ==
    \/ file.kind = "text"
    \/ \E k \in {"version", "last_save", "farm", "player"} : k \notin DOMAIN file.data
    \/ farm_from_dict(file.data.farm).raised
    \/ player_from_dict_raises(file.data.player)

(* load_game that skips the reconciliation pass *)
load_game_unreconciled(file, t) ==
    IF file.kind = "missing"
    THEN NoGame
    ELSE IF load_raises(file)
    THEN NoGame
    ELSE [loaded  |-> TRUE,
          farm    |-> farm_from_dict(file.data.farm).farm,
          player  |-> player_from_dict(file.data.player),
          summary |-> ZeroSummary,
          passes  |-> 0]

(* SaveSystem.load_game at time t: None, or the farm, the player and the   *)
(* offline summary; passes counts its calls of _process_offline_time.      *)
load_game(file, t) ==
    IF file.kind = "missing"
    THEN NoGame
    ELSE IF load_raises(file)
    THEN NoGame
    ELSE LET r == _process_offline_time(farm_from_dict(file.data.farm).farm,
                                        player_from_dict(file.data.player),
                                        file.data.last_save, t)
         IN  [loaded  |-> TRUE,
              farm    |-> r.farm,
              player  |-> r.player,
              summary |-> r.summary,
              passes  |-> 1]

(* create_new_game handing out a farm of a quarter of the starting size *)
create_new_game_small ==
    [farm   |-> Farm(2, 2),
     player |-> NewPlayer]

(* SaveSystem.create_new_game *)
create_new_game ==
    [farm   |-> Farm(STARTING_FARM_SIZE[1], STARTING_FARM_SIZE[2]),
     player |-> NewPlayer]

----------------------------------------------------------------------------
(* main.py: the FarmGame application *)

(* No application: the models are used on their own. *)
NoApp == [phase |-> "none"]

(* FarmGame.__init__: farm and player are None until on_mount has run. *)
NewApp(session) ==
    [phase |-> "start", session |-> session, source |-> "none", acted |-> 0]

(* The keys of CROPS in the order of the dict *)
CropOrder == <<"RADISH", "CARROT", "WHEAT", "TOMATO", "CORN", "PUMPKIN">>

(* on_mount that never looks at the save file *)
on_mount_new_game(file, t) ==
    [farm   |-> create_new_game.farm,
     player |-> create_new_game.player,
     passes |-> 0,
     source |-> "new"]

(* FarmGame.on_mount at time t: the farm and player of the session, where  *)
(* they came from, and the reconciliation passes run on the way.           *)
on_mount(file, t) ==
    LET save_data == load_game(file, t)
    IN  IF save_data.loaded
        THEN [farm   |-> save_data.farm,
              player |-> save_data.player,
              passes |-> save_data.passes,
              source |-> "save"]
        ELSE [farm   |-> create_new_game.farm,
              player |-> create_new_game.player,
              passes |-> save_data.passes,
              source |-> "new"]

(* FarmGrid.compose: the coordinates of the plot widgets made for a farm *)
FarmGridPlots(f) ==
    {<<x, y>> : x \in 0..(f.width - 1), y \in 0..(f.height - 1)}

(* FarmGame._set_plot_focus(x, y) with the focus at focused: the focus     *)
(* afterwards.  farm_grid.plots.get gives no plot outside the grid.        *)
_set_plot_focus(f, focused, x, y) ==
    IF <<x, y>> \in FarmGridPlots(f) THEN <<x, y>> ELSE focused

action_focus_left(f, focused) ==
    LET x == focused[1]
        y == focused[2]
        new_x == IF x - 1 > 0 THEN x - 1 ELSE 0
    IN  IF new_x # x THEN _set_plot_focus(f, focused, new_x, y) ELSE focused

action_focus_right(f, focused) ==
    LET x == focused[1]
        y == focused[2]
        new_x == IF x + 1 < f.width - 1 THEN x + 1 ELSE f.width - 1
    IN  IF new_x # x THEN _set_plot_focus(f, focused, new_x, y) ELSE focused

action_focus_up(f, focused) ==
    LET x == focused[1]
        y == focused[2]
        new_y == IF y - 1 > 0 THEN y - 1 ELSE 0
    IN  IF new_y # y THEN _set_plot_focus(f, focused, x, new_y) ELSE focused

(* focus_down that goes to the last row at once *)
action_focus_down_to_edge(f, focused) ==
    LET x == focused[1]
        y == focused[2]
        new_y == f.height - 1
    IN  IF new_y # y THEN _set_plot_focus(f, focused, x, new_y) ELSE focused

action_focus_down(f, focused) ==
    LET x == focused[1]
        y == focused[2]
        new_y == IF y + 1 < f.height - 1 THEN y + 1 ELSE f.height - 1
    IN  IF new_y # y THEN _set_plot_focus(f, focused, x, new_y) ELSE focused

(* FarmGame.BINDINGS: the navigation keys and their actions *)
NavigationKeys == {"h", "j", "k", "l", "left", "down", "up", "right"}

press(f, focused, key) ==
    CASE key \in {"h", "left"}  -> action_focus_left(f, focused)
      [] key \in {"j", "down"}  -> action_focus_down(f, focused)
      [] key \in {"k", "up"}    -> action_focus_up(f, focused)
      [] key \in {"l", "right"} -> action_focus_right(f, focused)

(* FarmGame._auto_save at time t over the session's farm and player: the   *)
(* two after the call and the file save_game wrote.                        *)
_auto_save(f, p, t) ==
    [farm |-> f, player |-> p, file |-> save_game(f, p, t)]

(* a growth tick that harvests what is ready as the offline pass does *)
_growth_update_harvests(f, p, t) ==
    LET r == _process_offline_time_ungated(f, p, t, t)
    IN  [farm |-> r.farm, player |-> r.player,
         ready_count |-> Len(get_ready_crops(r.farm, t))]

(* FarmGame._growth_update at time t: update_all_plots gives each widget   *)
(* the crop of its plot, _update_sidebar_sync counts the ready crops; the  *)
(* farm and the player after the call and the count shown.                 *)
_growth_update(f, p, t) ==
    [farm |-> f, player |-> p, ready_count |-> Len(get_ready_crops(f, t))]

(* _plant_crop that keeps the coins when planting fails *)
_plant_crop_unrefunded(f, p, x, y, crop_type, t) ==
    LET paid == spend_coins(p, CROPS[crop_type].seed_cost)
        r    == plant_crop(f, x, y, crop_type, t)
    IN  IF ~paid.ret
        THEN [farm |-> f, player |-> p]
        ELSE IF r.ret
        THEN [farm   |-> r.farm,
              player |-> [paid.player EXCEPT !.total_crops_planted = @ + 1]]
        ELSE [farm |-> f, player |-> paid.player]

(* _plant_crop that gives back the sell price when planting fails *)
_plant_crop_refunds_price(f, p, x, y, crop_type, t) ==
    LET paid == spend_coins(p, CROPS[crop_type].seed_cost)
        r    == plant_crop(f, x, y, crop_type, t)
    IN  IF ~paid.ret
        THEN [farm |-> f, player |-> p]
        ELSE IF r.ret
        THEN [farm   |-> r.farm,
              player |-> [paid.player EXCEPT !.total_crops_planted = @ + 1]]
        ELSE [farm   |-> f,
              player |-> add_coins(paid.player, CROPS[crop_type].sell_price)]

(* FarmGame._plant_crop: pay for the seed, plant, refund if planting fails *)
_plant_crop(f, p, x, y, crop_type, t) ==
    LET paid == spend_coins(p, CROPS[crop_type].seed_cost)
        r    == plant_crop(f, x, y, crop_type, t)
    IN  IF ~paid.ret
        THEN [farm |-> f, player |-> p]
        ELSE IF r.ret
        THEN [farm   |-> r.farm,
              player |-> [paid.player EXCEPT !.total_crops_planted = @ + 1]]
        ELSE [farm   |-> f,
              player |-> add_coins(paid.player, CROPS[crop_type].seed_cost)]

(* _handle_level_up that only notifies *)
_handle_level_up_silent(p, levels_gained) == p

(* FarmGame._handle_level_up: unlocks the first crop of the catalog whose  *)
(* unlock_level is the player's level, and returns.                        *)
_handle_level_up(p, levels_gained) ==
    LET hits == SelectSeq(CropOrder, LAMBDA k : CROPS[k].unlock_level = p.level)
    IN  IF levels_gained > 0 /\ hits # <<>>
        THEN unlock_crop(p, Head(hits))
        ELSE p

(* _harvest_crop that pays what the offline pass pays *)
_harvest_crop_discounted(f, p, x, y) ==
    LET r == harvest_crop(f, x, y)
    IN  IF r.ret = None
        THEN [farm |-> f, player |-> p]
        ELSE LET paid == [add_coins(p, coins_earned(r.ret))
                            EXCEPT !.total_crops_harvested = @ + 1]
                 xp   == add_experience(paid, XP_PER_HARVEST)
             IN  [farm   |-> r.farm,
                  player |-> _handle_level_up(xp.player, xp.ret)]

(* FarmGame._harvest_crop *)
_harvest_crop(f, p, x, y) ==
    LET r == harvest_crop(f, x, y)
    IN  IF r.ret = None
        THEN [farm |-> f, player |-> p]
        ELSE LET paid == [add_coins(p, config(r.ret).sell_price)
                            EXCEPT !.total_crops_harvested = @ + 1]
                 xp   == add_experience(paid, XP_PER_HARVEST)
             IN  [farm   |-> r.farm,
                  player |-> _handle_level_up(xp.player, xp.ret)]

(* on_plot_clicked that harvests whatever crop the message carries *)
on_plot_clicked_eager(f, p, x, y, crop, t) ==
    IF crop = None
    THEN [farm |-> f, player |-> p, selector |-> TRUE]
    ELSE [farm     |-> _harvest_crop(f, p, x, y).farm,
          player   |-> _harvest_crop(f, p, x, y).player,
          selector |-> FALSE]

(* FarmGame.on_plot_clicked for the message PlotClicked(x, y, crop): an    *)
(* empty plot opens the seed selector, a ready crop is harvested, a        *)
(* growing crop is only reported.                                          *)
on_plot_clicked(f, p, x, y, crop, t) ==
    IF crop = None
    THEN [farm |-> f, player |-> p, selector |-> TRUE]
    ELSE IF is_ready(crop, t)
    THEN [farm     |-> _harvest_crop(f, p, x, y).farm,
          player   |-> _harvest_crop(f, p, x, y).player,
          selector |-> FALSE]
    ELSE [farm |-> f, player |-> p, selector |-> FALSE]

(* PlotWidget.on_key / on_click: the message carries the crop the widget   *)
(* shows, which _refresh_ui and the growth tick keep equal to the crop of  *)
(* the plot.                                                               *)
PlotClicked(f, x, y) ==
    [kind |-> "PlotClicked", x |-> x, y |-> y, crop |-> get_crop(f, x, y)]

(* on_select of the selector opened for (x, y): call_later(_plant_crop) *)
PlantCall(x, y, crop_type) ==
    [kind |-> "_plant_crop", x |-> x, y |-> y, crop_type |-> crop_type]

(* No seed selector is mounted. *)
NoSelector == <<>>

(* The application handles the message at the head of its queue at time t: *)
(* the farm, the player and the selector afterwards.                       *)
handle(f, p, selector, message, t) ==
    IF message.kind = "PlotClicked"
    THEN LET r == on_plot_clicked(f, p, message.x, message.y, message.crop, t)
         IN  [farm |-> r.farm, player |-> r.player,
              selector |-> IF r.selector
                           THEN <<message.x, message.y>>
                           ELSE selector]
    ELSE LET r == _plant_crop(f, p, message.x, message.y, message.crop_type, t)
         IN  [farm |-> r.farm, player |-> r.player, selector |-> selector]

(* The seeds SeedSelector offers as buttons *)
SeedButtons(p) == {k \in CropTypes : CROPS[k].unlock_level <= p.level}

----------------------------------------------------------------------------
(* The reconciliation pass on its own: SaveSystem._process_offline_time    *)
(* called on a farm and a player, with a last_save before, at or after the *)
(* clock.                                                                  *)

MaxCrops == 2
MaxWait == 1

Epoch == 2 * MAX_OFFLINE_TIME

OfflineSizes == {<<2, 2>>}
TwiceSizes == {<<3, 1>>}

(* Ages of a planted crop around its growth time. *)
Ages(crop_type) ==
    LET g == CROPS[crop_type].growth_time IN {g - 1, g, 3 * g}

(* Elapsed times since the last save: clock skew, just under and at the    *)
(* threshold, and past the 24 hour cap.                                    *)
Gaps == {0 - 5, MIN_OFFLINE_TIME_TO_PROCESS - 1, MIN_OFFLINE_TIME_TO_PROCESS,
         MAX_OFFLINE_TIME + 1}

CropsAged(t) ==
    UNION {{Crop(k, t - a) : a \in Ages(k)} : k \in CropTypes}

(* The farm of a size with the crops c[i] planted in the cells i of S. *)
FarmWith(size, S, c) ==
    LET empty == Farm(size[1], size[2])
    IN  [empty EXCEPT !.plots =
            [i \in 1..Len(empty.plots) |->
                [pos  |-> empty.plots[i].pos,
                 crop |-> IF i \in S THEN c[i] ELSE None]]]

NoCall == [op |-> "none"]

InitFarms(sizes) ==
    /\ now = Epoch
    /\ \E size \in sizes :
        \E S \in {T \in SUBSET (1..(size[1] * size[2])) : Cardinality(T) <= MaxCrops} :
        \E c \in [S -> CropsAged(Epoch)] :
            farm = FarmWith(size, S, c)
    /\ player = Player(90, 0, 1, 1, 0, {})
    /\ disk = NoFile
    /\ last = NoCall
    /\ passes = 0
    /\ app = NoApp

Reconcile(gap) ==
    /\ LET r == _process_offline_time(farm, player, now - gap, now)
       IN  /\ farm' = r.farm
           /\ player' = r.player
           /\ last' = [op |-> "_process_offline_time", last_save |-> now - gap,
                       farm |-> farm, player |-> player, time |-> now,
                       summary |-> r.summary, prev |-> last]
    /\ passes' = passes + 1
    /\ UNCHANGED <<now, disk, app>>

InitOffline == InitFarms(OfflineSizes)

NextOffline == \E gap \in Gaps : passes = 0 /\ Reconcile(gap)

SpecOffline == InitOffline /\ [][NextOffline]_vars

(* Two passes in a row, the clock running on between them. *)
Wait ==
    /\ passes = 1
    /\ now < Epoch + MaxWait
    /\ now' = now + 1
    /\ UNCHANGED <<farm, player, disk, last, passes, app>>

InitTwice == InitFarms(TwiceSizes)

NextTwice ==
    \/ \E gap \in Gaps : passes < 2 /\ Reconcile(gap)
    \/ Wait

SpecTwice == InitTwice /\ [][NextTwice]_vars

----------------------------------------------------------------------------
(* The Farm on its own: plant_crop, harvest_crop and expand called with    *)
(* coordinates inside and outside the grid, as the clock runs.             *)

MaxTicks == 1

FarmDims == 1..2
(* The cells of the largest grid, and the coordinates of the tests outside *)
(* it: a negative x, a negative y, an x and a y past the edge.             *)
CallCoords == {<<0, 0>>, <<0, 1>>, <<1, 0>>, <<1, 1>>,
               <<0 - 1, 0>>, <<0, 0 - 1>>, <<2, 0>>, <<0, 2>>}
CallSizes == 0..2
CallKinds == {"RADISH", "PUMPKIN", "MELON"}

InitFarm ==
    /\ now = Epoch
    /\ \E w, h \in FarmDims : farm = Farm(w, h)
    /\ player = NewPlayer
    /\ disk = NoFile
    /\ last = NoCall
    /\ passes = 0
    /\ app = NoApp

PlantCrop(x, y, crop_type) ==
    /\ LET r == plant_crop(farm, x, y, crop_type, now)
       IN  /\ farm' = r.farm
           /\ last' = [op |-> "plant_crop", x |-> x, y |-> y,
                       crop_type |-> crop_type, farm |-> farm, time |-> now,
                       ret |-> r.ret, raised |-> r.raised]
    /\ UNCHANGED <<now, player, disk, passes, app>>

(* before: whether the call before this one was a harvest of the same     *)
(* cell, and what that call returned.                                      *)
HarvestCrop(x, y) ==
    /\ LET r == harvest_crop(farm, x, y)
       IN  /\ farm' = r.farm
           /\ last' = [op |-> "harvest_crop", x |-> x, y |-> y,
                       farm |-> farm, time |-> now, ret |-> r.ret,
                       before |-> IF last.op = "harvest_crop"
                                     /\ last.x = x /\ last.y = y
                                  THEN [again |-> TRUE, ret |-> last.ret]
                                  ELSE [again |-> FALSE, ret |-> None]]
    /\ UNCHANGED <<now, player, disk, passes, app>>

Expand(new_width, new_height) ==
    /\ LET r == expand(farm, new_width, new_height)
       IN  /\ farm' = r.farm
           /\ last' = [op |-> "expand", new_width |-> new_width,
                       new_height |-> new_height, farm |-> farm, time |-> now,
                       ret |-> r.ret]
    /\ UNCHANGED <<now, player, disk, passes, app>>

Tick ==
    /\ now < Epoch + MaxTicks
    /\ now' = now + 1
    /\ UNCHANGED <<farm, player, disk, last, passes, app>>

NextFarm ==
    \/ \E c \in CallCoords : \E k \in CallKinds : PlantCrop(c[1], c[2], k)
    \/ \E c \in CallCoords : HarvestCrop(c[1], c[2])
    \/ \E w, h \in CallSizes : Expand(w, h)
    \/ Tick

SpecFarm == InitFarm /\ [][NextFarm]_vars

----------------------------------------------------------------------------
(* The grid over its life: a newly constructed farm is planted, harvested, *)
(* expanded and reconciled, while Radishes planted before a sleep ripen.   *)

MaxPasses == 1

(* A sleep lasts the growth time of a Radish. *)
SleepTime == CROPS["RADISH"].growth_time

InitGrid == InitFarm

Sleep ==
    /\ now < Epoch + MaxTicks * SleepTime
    /\ now' = now + SleepTime
    /\ UNCHANGED <<farm, player, disk, last, passes, app>>

OfflinePass(gap) ==
    /\ passes < MaxPasses
    /\ LET r == _process_offline_time(farm, player, now - gap, now)
       IN  /\ farm' = r.farm
           /\ player' = r.player
           /\ last' = [op |-> "_process_offline_time", last_save |-> now - gap,
                       farm |-> farm, player |-> player, time |-> now,
                       summary |-> r.summary, prev |-> NoCall]
    /\ passes' = passes + 1
    /\ UNCHANGED <<now, disk, app>>

NextGrid ==
    \/ \E c \in CallCoords : PlantCrop(c[1], c[2], "RADISH")
    \/ \E c \in CallCoords : HarvestCrop(c[1], c[2])
    \/ \E w, h \in CallSizes : Expand(w, h)
    \/ \E gap \in Gaps : OfflinePass(gap)
    \/ Sleep

SpecGrid == InitGrid /\ [][NextGrid]_vars

----------------------------------------------------------------------------
(* The Player on its own: coins are earned and spent and experience is     *)
(* added, starting from a new player.                                      *)

MaxLevel == 4

(* Amounts spent: a negative one, nothing, seed costs, and the starting    *)
(* coins with one more.                                                    *)
SpendAmounts == {0 - 5, 0, 10, 50, STARTING_COINS, STARTING_COINS + 1}

(* Sell prices earned. *)
CoinAmounts == {15, 35}

(* Experience added: nothing, a harvest, half a level, one level and the   *)
(* three levels of the test.                                               *)
XpAmounts == {0, XP_PER_HARVEST, 50, XP_PER_LEVEL, 600}

InitPlayer ==
    /\ now = Epoch
    /\ farm = create_new_game.farm
    /\ player = create_new_game.player
    /\ disk = NoFile
    /\ last = NoCall
    /\ passes = 0
    /\ app = NoApp

SpendCoins(amount) ==
    /\ player.coins <= STARTING_COINS
    /\ LET r == spend_coins(player, amount)
       IN  /\ player' = r.player
           /\ last' = [op |-> "spend_coins", amount |-> amount,
                       player |-> player, ret |-> r.ret]
    /\ UNCHANGED <<now, farm, disk, passes, app>>

AddCoins(amount) ==
    /\ player.coins < STARTING_COINS
    /\ player' = add_coins(player, amount)
    /\ last' = [op |-> "add_coins", amount |-> amount, player |-> player]
    /\ UNCHANGED <<now, farm, disk, passes, app>>

AddExperience(amount) ==
    /\ player.level < MaxLevel
    /\ LET r == add_experience(player, amount)
       IN  /\ player' = r.player
           /\ last' = [op |-> "add_experience", amount |-> amount,
                       player |-> player, ret |-> r.ret]
    /\ UNCHANGED <<now, farm, disk, passes, app>>

NextPlayer ==
    \/ \E amount \in SpendAmounts : SpendCoins(amount)
    \/ \E amount \in CoinAmounts : AddCoins(amount)
    \/ \E amount \in XpAmounts : AddExperience(amount)

SpecPlayer == InitPlayer /\ [][NextPlayer]_vars

----------------------------------------------------------------------------
(* The save system: a game is saved, the file's last_save is rewritten as  *)
(* test_offline_progression rewrites it, and the game is loaded.           *)

(* The farm of the test's game_state: 4x4 with a Radish at (0, 0), planted *)
(* 100 s ago.                                                              *)
GameStateFarm ==
    [Farm(4, 4) EXCEPT !.plots = SetPlot(@, <<0, 0>>, Crop("RADISH", Epoch - 100))]

SavedCrops ==
    {Crop("RADISH", Epoch - 100), Crop("RADISH", Epoch - 29),
     Crop("CARROT", Epoch - 59), Crop("CORN", Epoch - 300)}

(* Seconds written back into last_save, counted from the clock. *)
SaveAges == {5, 20}

InitSave ==
    /\ now = Epoch
    /\ \/ farm = GameStateFarm
       \/ \E S \in {T \in SUBSET (1..4) : Cardinality(T) <= MaxCrops} :
          \E c \in [S -> SavedCrops] :
              farm = FarmWith(<<2, 2>>, S, c)
    /\ player = Player(90, 0, 1, 1, 0, {})
    /\ disk \in {NoFile, NotJson}
    /\ last = NoCall
    /\ passes = 0
    /\ app = NoApp

SaveGame ==
    /\ disk' = save_game(farm, player, now)
    /\ last' = [op |-> "save_game", farm |-> farm, player |-> player,
                time |-> now]
    /\ UNCHANGED <<now, farm, player, passes, app>>

(* data['last_save'] = time.time() - age, written back to SAVE_FILE *)
SetLastSave(age) ==
    /\ disk.kind = "json"
    /\ disk' = [disk EXCEPT !.data.last_save = now - age]
    /\ last' = [op |-> "set_last_save", age |-> age, time |-> now]
    /\ UNCHANGED <<now, farm, player, passes, app>>

(* saved: whether the call before this one was the save_game that wrote   *)
(* the file, and the farm, the player and the time of that call.           *)
LoadGame ==
    /\ LET r == load_game(disk, now)
       IN  /\ last' = [op |-> "load_game", file |-> disk, time |-> now,
                       ret |-> r,
                       saved |-> IF last.op = "save_game"
                                 THEN [fresh |-> TRUE, farm |-> last.farm,
                                       player |-> last.player,
                                       time |-> last.time]
                                 ELSE [fresh |-> FALSE]]
           /\ IF r.loaded
              THEN farm' = r.farm /\ player' = r.player
              ELSE UNCHANGED <<farm, player>>
    /\ UNCHANGED <<now, disk, passes, app>>

NextSave ==
    \/ SaveGame
    \/ \E age \in SaveAges : SetLastSave(age)
    \/ LoadGame
    \/ Tick

SpecSave == InitSave /\ [][NextSave]_vars

----------------------------------------------------------------------------
(* Loading what is left of a save file: after save_game the file is        *)
(* deleted, overwritten with text that is not JSON, or rewritten without a *)
(* key or with a crop no constructor accepts, and load_game is called.     *)

(* A dict without one of its keys *)
WithoutKey(dict, key) == [k \in DOMAIN dict \ {key} |-> dict[k]]

TopLevelKeys == {"version", "last_save", "farm", "player"}

Damages ==
    {<<"file", "deleted">>, <<"file", "garbled">>}
    \cup {<<"top", k>> : k \in TopLevelKeys}
    \cup {<<"farm", k>> : k \in {"width", "plots"}}
    \cup {<<"player", k>> : k \in {"coins", "unlocked_crops"}}
    \cup {<<"crop", k>> : k \in {"crop_type", "planted_at", "unknown", "negative"}}

(* The first plot of the saved farm that holds a crop *)
FirstCrop(data) ==
    CHOOSE i \in 1..Len(data.farm.plots) :
        /\ data.farm.plots[i].value # None
        /\ \A j \in 1..(i - 1) : data.farm.plots[j].value = None

DamagedCrop(crop, how) ==
    IF how = "unknown" THEN [crop EXCEPT !.crop_type = "MELON"]
    ELSE IF how = "negative" THEN [crop EXCEPT !.planted_at = 0 - 5]
    ELSE WithoutKey(crop, how)

DamagedFile(file, damage) ==
    IF damage = <<"file", "deleted">> THEN NoFile
    ELSE IF damage = <<"file", "garbled">> THEN NotJson
    ELSE IF damage[1] = "top" THEN JsonFile(WithoutKey(file.data, damage[2]))
    ELSE IF damage[1] = "farm"
    THEN JsonFile([file.data EXCEPT !.farm = WithoutKey(@, damage[2])])
    ELSE IF damage[1] = "player"
    THEN JsonFile([file.data EXCEPT !.player = WithoutKey(@, damage[2])])
    ELSE JsonFile([file.data EXCEPT
                      !.farm.plots[FirstCrop(file.data)].value =
                          DamagedCrop(@, damage[2])])

InitLoad == InitSave

Damage(damage) ==
    /\ last.op = "save_game"
    /\ damage[1] = "crop" =>
           \E i \in 1..Len(disk.data.farm.plots) : disk.data.farm.plots[i].value # None
    /\ disk' = DamagedFile(disk, damage)
    /\ last' = [op |-> "damage", damage |-> damage, time |-> now]
    /\ UNCHANGED <<now, farm, player, passes, app>>

NextLoad ==
    \/ SaveGame
    \/ \E damage \in Damages : Damage(damage)
    \/ LoadGame

SpecLoad == InitLoad /\ [][NextLoad]_vars

----------------------------------------------------------------------------
(* Loading a save file whose plots keys were rewritten: after save_game an *)
(* entry of data['farm']['plots'] is taken out, is moved to a key outside  *)
(* the grid, or an entry with a key outside the grid is added, and         *)
(* load_game is called.                                                    *)

KeyEdits == {"omit", "move", "add_null", "add_crop"}

(* Seq without its element i *)
WithoutEntry(entries, i) ==
    SubSeq(entries, 1, i - 1) \o SubSeq(entries, i + 1, Len(entries))

EditedPlots(data, edit, i) ==
    IF edit = "omit" THEN WithoutEntry(data.plots, i)
    ELSE IF edit = "move"
    THEN [data.plots EXCEPT
             ![i].key = format_key(key_pos(@)[1] + data.width, key_pos(@)[2])]
    ELSE IF edit = "add_null"
    THEN Append(data.plots, [key   |-> format_key(data.width, data.height),
                             value |-> None])
    ELSE Append(data.plots,
                [key   |-> format_key(data.width, data.height),
                 value |-> crop_to_dict(Crop("RADISH", data.width))])

InitKeys == InitSave

EditKeys(edit, i) ==
    /\ last.op = "save_game"
    /\ i \in 1..Len(disk.data.farm.plots)
    /\ edit \in {"add_null", "add_crop"} => i = 1
    /\ disk' = [disk EXCEPT !.data.farm.plots = EditedPlots(disk.data.farm, edit, i)]
    /\ last' = [op |-> "edit_keys", edit |-> edit, entry |-> i, time |-> now]
    /\ UNCHANGED <<now, farm, player, passes, app>>

NextKeys ==
    \/ SaveGame
    \/ \E edit \in KeyEdits : \E i \in 1..4 : EditKeys(edit, i)
    \/ LoadGame

SpecKeys == InitKeys /\ [][NextKeys]_vars

----------------------------------------------------------------------------
(* One crop over its growth: a plot is planted, or is given a crop         *)
(* constructed with a timestamp of its own as Farm.from_dict does, the     *)
(* clock advances second by second, and the plot is harvested.             *)

MaxElapsed == 31

GrowKinds == {"RADISH", "CARROT", "MELON"}
(* the timestamp of test_crop_negative_timestamp, the start of the epoch,  *)
(* a time before the run and one after its start                           *)
GrowPlantedAt == {0 - 100, 0, Epoch - 25, Epoch + 2}

InitCrop ==
    /\ now = Epoch
    /\ farm = Farm(1, 1)
    /\ player = NewPlayer
    /\ disk = NoFile
    /\ last = NoCall
    /\ passes = 0
    /\ app = NoApp

(* plots[(0, 0)] = Crop(crop_type, planted_at); nothing is assigned when   *)
(* the constructor raises.  after_unknown: the call before this one was a  *)
(* plant_crop that raised.                                                 *)
NewCrop(crop_type, planted_at) ==
    /\ LET r == CropInit(crop_type, planted_at)
       IN  /\ farm' = IF r.raised
                      THEN farm
                      ELSE [farm EXCEPT !.plots = SetPlot(@, <<0, 0>>, r.crop)]
           /\ last' = [op |-> "Crop", crop_type |-> crop_type,
                       planted_at |-> planted_at, farm |-> farm, time |-> now,
                       raised |-> r.raised, crop |-> r.crop,
                       after_unknown |-> last.op = "plant_crop" /\ last.raised]
    /\ UNCHANGED <<now, player, disk, passes, app>>

(* time.sleep(1) *)
Grow ==
    /\ now < Epoch + MaxElapsed
    /\ now' = now + 1
    /\ last' = [op |-> "sleep", farm |-> farm, time |-> now]
    /\ UNCHANGED <<farm, player, disk, passes, app>>

NextCrop ==
    \/ \E k \in GrowKinds : \E p \in GrowPlantedAt : NewCrop(k, p)
    \/ \E k \in {"RADISH", "MELON"} : PlantCrop(0, 0, k)
    \/ HarvestCrop(0, 0)
    \/ Grow

SpecCrop == InitCrop /\ [][NextCrop]_vars

----------------------------------------------------------------------------
(* Crops in their plots while everything else happens: a farm of two plots *)
(* is planted and harvested, expanded, reconciled, saved and loaded, and   *)
(* the clock advances by the growth time of a Radish.                      *)

KeepCoords == {<<0, 0>>, <<1, 0>>}
(* after one sleep a Radish is ripe and a Carrot is half grown *)
KeepPlants == {<<0, 0, "RADISH">>, <<1, 0, "CARROT">>}

InitKeep ==
    /\ now = Epoch
    /\ farm = Farm(2, 1)
    /\ player = NewPlayer
    /\ disk = NoFile
    /\ last = NoCall
    /\ passes = 0
    /\ app = NoApp

(* The one sleep of the run, between a save and a load or a pass. *)
Nap ==
    /\ now = Epoch
    /\ now' = now + SleepTime
    /\ UNCHANGED <<farm, player, disk, last, passes, app>>

NextKeep ==
    \/ \E c \in KeepPlants : PlantCrop(c[1], c[2], c[3])
    \/ \E c \in KeepCoords : HarvestCrop(c[1], c[2])
    \/ Expand(2, 2)
    \/ OfflinePass(MIN_OFFLINE_TIME_TO_PROCESS)
    \/ SaveGame
    \/ LoadGame
    \/ Nap

SpecKeep == InitKeep /\ [][NextKeep]_vars

----------------------------------------------------------------------------
(* The unlocked crops of a player: players are constructed with a set of   *)
(* their own or with none, restored from a dict, and unlock crops.         *)

UnlockKinds == {"RADISH", "CARROT", "WHEAT", "TOMATO", "CORN"}

InitUnlock == InitPlayer

(* Player(unlocked_crops=unlocked); the empty set stands for None too *)
NewPlayerWith(unlocked) ==
    /\ player' = Player(STARTING_COINS, 0, 1, 0, 0, unlocked)
    /\ last' = [op |-> "Player", unlocked_crops |-> unlocked, time |-> now]
    /\ UNCHANGED <<now, farm, disk, passes, app>>

(* Player.from_dict on the dict of the player with another list in it *)
RestorePlayer(unlocked) ==
    /\ LET data == [player_to_dict(player)
                        EXCEPT !.unlocked_crops = list_of(unlocked)]
       IN  player' = player_from_dict(data)
    /\ last' = [op |-> "from_dict", unlocked_crops |-> unlocked, time |-> now]
    /\ UNCHANGED <<now, farm, disk, passes, app>>

UnlockCrop(crop_type) ==
    /\ player' = unlock_crop(player, crop_type)
    /\ last' = [op |-> "unlock_crop", crop_type |-> crop_type,
                player |-> player, time |-> now]
    /\ UNCHANGED <<now, farm, disk, passes, app>>

NextUnlock ==
    \/ \E unlocked \in SUBSET UnlockKinds : NewPlayerWith(unlocked)
    \/ \E unlocked \in SUBSET UnlockKinds : RestorePlayer(unlocked)
    \/ \E crop_type \in UnlockKinds : UnlockCrop(crop_type)

SpecUnlock == InitUnlock /\ [][NextUnlock]_vars

----------------------------------------------------------------------------
(* Saving on a file system that can fail. *)

InitStore == InitSave

StoreGame(os) ==
    /\ os = "makedirs fails" => disk.kind = "missing"
    /\ LET r == save_game_os(farm, player, now, disk, os)
       IN  /\ disk' = r.file
           /\ last' = [op |-> "save_game", farm |-> farm, player |-> player,
                       time |-> now, file |-> disk, os |-> os,
                       ret |-> r.ret, raised |-> r.raised]
    /\ UNCHANGED <<now, farm, player, passes, app>>

(* The save file and its directory are removed. *)
RemoveSave ==
    /\ disk.kind # "missing"
    /\ disk' = NoFile
    /\ last' = [op |-> "remove", time |-> now]
    /\ UNCHANGED <<now, farm, player, passes, app>>

NextStore ==
    \/ \E os \in OsOutcomes : StoreGame(os)
    \/ RemoveSave
    \/ Tick

SpecStore == InitStore /\ [][NextStore]_vars

----------------------------------------------------------------------------
(* Serialization: a crop, a farm and a player are written with to_dict and *)
(* read back with from_dict.  The farms are constructed, planted and       *)
(* possibly expanded, so that the order of plots is not always that of a   *)
(* new farm.                                                               *)

RoundSizes == {<<1, 2>>, <<2, 1>>, <<2, 2>>}

(* Players of a game: after the test's purchase, broke, and two levels up  *)
(* with Wheat unlocked.                                                    *)
RoundPlayers ==
    {NewPlayer,
     Player(90, 0, 1, 1, 0, {}),
     Player(0, 50, 1, 6, 2, {}),
     Player(235, 120, 2, 9, 7, STARTING_UNLOCKED_CROPS \cup {"WHEAT"})}

InitRoundTrip ==
    /\ now = Epoch
    /\ \E size \in RoundSizes :
        \E S \in {T \in SUBSET (1..(size[1] * size[2])) : Cardinality(T) <= MaxCrops} :
        \E c \in [S -> SavedCrops] :
        \E grown \in BOOLEAN :
            farm = IF grown
                   THEN expand(FarmWith(size, S, c), 2, 2).farm
                   ELSE FarmWith(size, S, c)
    /\ player \in RoundPlayers
    /\ disk = NoFile
    /\ last = NoCall
    /\ passes = 0
    /\ app = NoApp

(* Crop.from_dict(crop.to_dict()) *)
RoundTripCrop(crop) ==
    /\ last' = [op |-> "crop_round_trip", crop |-> crop,
                raised |-> crop_from_dict_raises(crop_to_dict(crop)),
                ret |-> crop_from_dict(crop_to_dict(crop))]
    /\ UNCHANGED <<now, farm, player, disk, passes, app>>

(* farm = Farm.from_dict(farm.to_dict()) *)
RoundTripFarm ==
    /\ LET r == farm_from_dict(farm_to_dict(farm))
       IN  /\ farm' = r.farm
           /\ last' = [op |-> "farm_round_trip", farm |-> farm,
                       raised |-> r.raised]
    /\ UNCHANGED <<now, player, disk, passes, app>>

(* player = Player.from_dict(player.to_dict()) *)
RoundTripPlayer ==
    /\ player' = player_from_dict(player_to_dict(player))
    /\ last' = [op |-> "player_round_trip", player |-> player]
    /\ UNCHANGED <<now, farm, disk, passes, app>>

NextRoundTrip ==
    \/ \E crop \in SavedCrops : RoundTripCrop(crop)
    \/ RoundTripFarm
    \/ RoundTripPlayer

SpecRoundTrip == InitRoundTrip /\ [][NextRoundTrip]_vars

----------------------------------------------------------------------------
(* Application sessions: FarmGame is started, mounts, is played while its  *)
(* two timers fire, and exits; then it may be started again.  A click is   *)
(* handled before the next one is made, so a plot widget shows the crop    *)
(* the farm holds.                                                         *)

MaxSessions == 2
MaxActs == 2

ClickPlots == {<<0, 0>>, <<1, 0>>}

(* Save files found by the first session: the game_state farm, and one     *)
(* whose Radish is a second short of ready.                                *)
AppFarms ==
    {GameStateFarm,
     [Farm(4, 4) EXCEPT !.plots = SetPlot(@, <<0, 0>>, Crop("RADISH", Epoch - 29))]}

InitApp ==
    /\ now = Epoch
    /\ farm = None
    /\ player = None
    /\ \/ disk \in {NoFile, NotJson}
       \/ \E f \in AppFarms : \E age \in SaveAges :
              disk = save_game(f, Player(90, 0, 1, 1, 0, {}), Epoch - age)
    /\ last = NoCall
    /\ passes = 0
    /\ app = NewApp(1)

Running == app.phase = "running"

(* on_mount: load_game or create_new_game, then the grid and the timers *)
Mount ==
    /\ app.phase = "start"
    /\ LET r == on_mount(disk, now)
       IN  /\ farm' = r.farm
           /\ player' = r.player
           /\ passes' = passes + r.passes
           /\ app' = [app EXCEPT !.phase = "running", !.source = r.source]
    /\ last' = [op |-> "on_mount", file |-> disk, time |-> now,
                passes |-> passes, acted |-> app.acted]
    /\ UNCHANGED <<now, disk>>

(* Enter on an empty plot, then a seed button: call_later(_plant_crop) *)
PlantSeed(x, y, crop_type) ==
    /\ Running
    /\ app.acted < MaxActs
    /\ on_plot_clicked(farm, player, x, y, get_crop(farm, x, y), now).selector
    /\ crop_type \in SeedButtons(player)
    /\ LET r == _plant_crop(farm, player, x, y, crop_type, now)
       IN  farm' = r.farm /\ player' = r.player
    /\ app' = [app EXCEPT !.acted = @ + 1]
    /\ last' = [op |-> "_plant_crop", x |-> x, y |-> y,
                crop_type |-> crop_type, farm |-> farm, player |-> player,
                time |-> now, passes |-> passes]
    /\ UNCHANGED <<now, disk, passes>>

(* Enter on a plot that shows a crop *)
ClickCrop(x, y) ==
    /\ Running
    /\ app.acted < MaxActs
    /\ get_crop(farm, x, y) # None
    /\ LET r == on_plot_clicked(farm, player, x, y, get_crop(farm, x, y), now)
       IN  farm' = r.farm /\ player' = r.player
    /\ app' = [app EXCEPT !.acted = @ + 1]
    /\ last' = [op |-> "on_plot_clicked", x |-> x, y |-> y, farm |-> farm,
                player |-> player, time |-> now, passes |-> passes]
    /\ UNCHANGED <<now, disk, passes>>

(* _auto_save: save_game on the session's farm and player *)
AutoSave ==
    /\ Running
    /\ LET r == _auto_save(farm, player, now)
       IN  farm' = r.farm /\ player' = r.player /\ disk' = r.file
    /\ last' = [op |-> "_auto_save", farm |-> farm, player |-> player,
                time |-> now, passes |-> passes]
    /\ UNCHANGED <<now, passes, app>>

(* _growth_update: the widgets are redrawn.  after: the call before. *)
GrowthUpdate ==
    /\ Running
    /\ LET r == _growth_update(farm, player, now)
       IN  farm' = r.farm /\ player' = r.player
    /\ last' = [op |-> "_growth_update", farm |-> farm, player |-> player,
                time |-> now, passes |-> passes, after |-> last.op]
    /\ UNCHANGED <<now, disk, passes, app>>

(* on_unmount: save_game on exit *)
Unmount ==
    /\ Running
    /\ disk' = save_game(farm, player, now)
    /\ app' = [app EXCEPT !.phase = "exited"]
    /\ last' = [op |-> "on_unmount", farm |-> farm, player |-> player,
                time |-> now, passes |-> passes]
    /\ UNCHANGED <<now, farm, player, passes>>

(* main(): a new FarmGame in a new process *)
Launch ==
    /\ app.phase = "exited"
    /\ app.session < MaxSessions
    /\ farm' = None
    /\ player' = None
    /\ passes' = 0
    /\ app' = NewApp(app.session + 1)
    /\ last' = [op |-> "main", time |-> now]
    /\ UNCHANGED <<now, disk>>

Clock ==
    /\ now < Epoch + MaxTicks
    /\ now' = now + 1
    /\ UNCHANGED <<farm, player, disk, last, passes, app>>

NextApp ==
    \/ Mount
    \/ \E c \in ClickPlots : \E k \in CropTypes : PlantSeed(c[1], c[2], k)
    \/ \E c \in ClickPlots : ClickCrop(c[1], c[2])
    \/ AutoSave
    \/ GrowthUpdate
    \/ Unmount
    \/ Launch
    \/ Clock

SpecApp == InitApp /\ [][NextApp]_vars

----------------------------------------------------------------------------
(* The message queue of the application: keys on plots and seed buttons    *)
(* post PlotClicked messages and deferred _plant_crop calls, which the     *)
(* application handles one at a time in the order they were posted, while  *)
(* the clock advances and the ticks fire.                                  *)

MaxInputs == 4
MaxQueue == 3

QueuePlots == {<<0, 0>>, <<1, 0>>, <<2, 0>>}
QueueSeeds == {"RADISH"}

(* A game saved a moment ago, after nine harvests, with 15 coins, a ripe   *)
(* Radish, a Carrot half grown and an empty plot.                          *)
QueueSave ==
    save_game([Farm(3, 1) EXCEPT !.plots =
                  SetPlot(SetPlot(@, <<0, 0>>, Crop("RADISH", Epoch - 40)),
                          <<1, 0>>, Crop("CARROT", Epoch - 31))],
              Player(15, 90, 1, 11, 9, {}), Epoch - 1)

InitQueue ==
    /\ now = Epoch
    /\ farm = None
    /\ player = None
    /\ disk \in {NoFile, QueueSave}
    /\ last = NoCall
    /\ passes = 0
    /\ app = [phase |-> "start", session |-> 1, source |-> "none",
              acted |-> 0, queue |-> <<>>, selector |-> NoSelector]

(* Enter, space or a click on the plot (x, y) *)
PostClick(x, y) ==
    /\ Running
    /\ app.acted < MaxInputs
    /\ Len(app.queue) < MaxQueue
    /\ _is_valid_position(farm, x, y)
    /\ app' = [app EXCEPT !.acted = @ + 1,
                          !.queue = Append(@, PlotClicked(farm, x, y))]
    /\ UNCHANGED <<now, farm, player, disk, last, passes>>

(* A seed button of the open selector is pressed, once or twice before the *)
(* selector is gone.                                                       *)
PressSeed(crop_type, times) ==
    /\ Running
    /\ app.acted < MaxInputs
    /\ app.selector # NoSelector
    /\ crop_type \in SeedButtons(player)
    /\ Len(app.queue) + times <= MaxQueue
    /\ LET call == PlantCall(app.selector[1], app.selector[2], crop_type)
       IN  app' = [app EXCEPT
                      !.acted = @ + 1,
                      !.queue = IF times = 1
                                THEN Append(@, call)
                                ELSE Append(Append(@, call), call),
                      !.selector = NoSelector]
    /\ UNCHANGED <<now, farm, player, disk, last, passes>>

(* before: the crop in the plot of the message before the call *)
Handle ==
    /\ Running
    /\ app.queue # <<>>
    /\ LET message == Head(app.queue)
           r == handle(farm, player, app.selector, message, now)
       IN  /\ farm' = r.farm
           /\ player' = r.player
           /\ app' = [app EXCEPT !.queue = Tail(@), !.selector = r.selector]
           /\ last' = [op |-> "handle", message |-> message, farm |-> farm,
                       player |-> player, time |-> now,
                       before |-> get_crop(farm, message.x, message.y)]
    /\ UNCHANGED <<now, disk, passes>>

NextQueue ==
    \/ Mount
    \/ \E c \in QueuePlots : PostClick(c[1], c[2])
    \/ \E k \in QueueSeeds : \E times \in 1..2 : PressSeed(k, times)
    \/ Handle
    \/ GrowthUpdate
    \/ Sleep

SpecQueue == InitQueue /\ [][NextQueue]_vars

----------------------------------------------------------------------------
(* A game from its first start: the program is started without a save      *)
(* file, plots and seed buttons are pressed and their messages handled,    *)
(* the timers fire, the program exits and is started again, a Radish's     *)
(* growth time later or at once.                                           *)

LifePlots == {<<0, 0>>}

(* The save of a game whose first ten plantings were Radishes, now ripe,   *)
(* and took the last of the starting coins.                                *)
BrokeSave ==
    save_game(FarmWith(STARTING_FARM_SIZE, 1..10,
                       [i \in 1..10 |-> Crop("RADISH", Epoch - 40)]),
              Player(0, 0, 1, 10, 0, {}), Epoch - 1)

InitLife ==
    /\ now = Epoch
    /\ farm = None
    /\ player = None
    /\ disk \in {NoFile, NotJson}
    /\ last = NoCall
    /\ passes = 0
    /\ app = [phase |-> "start", session |-> 1, source |-> "none",
              acted |-> 0, queue |-> <<>>, selector |-> NoSelector]

(* main() again: a new FarmGame, with nothing queued and no selector *)
Relaunch ==
    /\ app.phase = "exited"
    /\ app.session < MaxSessions
    /\ farm' = None
    /\ player' = None
    /\ passes' = 0
    /\ app' = [phase |-> "start", session |-> app.session + 1,
               source |-> "none", acted |-> 0, queue |-> <<>>,
               selector |-> NoSelector]
    /\ last' = [op |-> "main", time |-> now]
    /\ UNCHANGED <<now, disk>>

NextLife ==
    \/ Mount
    \/ \E c \in LifePlots : PostClick(c[1], c[2])
    \/ \E k \in QueueSeeds : \E times \in 1..2 : PressSeed(k, times)
    \/ Handle
    \/ GrowthUpdate
    \/ AutoSave
    \/ Sleep
    \/ Unmount
    \/ Relaunch

SpecLife == InitLife /\ [][NextLife]_vars

(* The same without the timers, started on the save of a game that has     *)
(* spent its coins.                                                        *)
InitBroke ==
    /\ now = Epoch
    /\ farm = None
    /\ player = None
    /\ disk = BrokeSave
    /\ last = NoCall
    /\ passes = 0
    /\ app = [phase |-> "start", session |-> 1, source |-> "none",
              acted |-> 0, queue |-> <<>>, selector |-> NoSelector]

NextBroke ==
    \/ Mount
    \/ \E c \in LifePlots : PostClick(c[1], c[2])
    \/ \E k \in QueueSeeds : \E times \in 1..2 : PressSeed(k, times)
    \/ Handle
    \/ Sleep
    \/ Unmount
    \/ Relaunch

SpecBroke == InitBroke /\ [][NextBroke]_vars

----------------------------------------------------------------------------
(* Levelling up in the UI: the program is started on a new game or on the  *)
(* save of a game that is one harvest short of its next level, with a ripe *)
(* Radish and an empty plot; plots and seed buttons are pressed and their  *)
(* messages handled.                                                       *)

(* The levels of the saved games: the next level unlocks Wheat, Tomato,    *)
(* nothing, Corn and Pumpkin.                                              *)
LevelStarts == {1, 2, 3, 4, 6}

LevelPlots == {<<0, 0>>, <<1, 0>>}

(* What a game has unlocked when it has come to a level by harvesting *)
UnlockedAt(level) == {k \in CropTypes : CROPS[k].unlock_level <= level}

(* The harvests that bring a new player to a level with some experience *)
HarvestsFor(level, experience) ==
    (50 * level * (level - 1) + experience) \div XP_PER_HARVEST

LevelSave(level) ==
    LET experience == level * XP_PER_LEVEL - XP_PER_HARVEST
        harvested  == HarvestsFor(level, experience)
    IN  save_game([Farm(STARTING_FARM_SIZE[1], STARTING_FARM_SIZE[2])
                      EXCEPT !.plots =
                          SetPlot(@, <<0, 0>>, Crop("RADISH", Epoch - 40))],
                  Player(200, experience, level, harvested + 1, harvested,
                         UnlockedAt(level)),
                  Epoch - 1)

InitLevels ==
    /\ now = Epoch
    /\ farm = None
    /\ player = None
    /\ disk \in {NoFile} \cup {LevelSave(level) : level \in LevelStarts}
    /\ last = NoCall
    /\ passes = 0
    /\ app = [phase |-> "start", session |-> 1, source |-> "none",
              acted |-> 0, queue |-> <<>>, selector |-> NoSelector]

NextLevels ==
    \/ Mount
    \/ \E c \in LevelPlots : PostClick(c[1], c[2])
    \/ \E k \in CropTypes : PressSeed(k, 1)
    \/ Handle

SpecLevels == InitLevels /\ [][NextLevels]_vars

----------------------------------------------------------------------------
(* Keyboard navigation: a session is mounted on a new game or on a saved   *)
(* farm of another size, and navigation keys are pressed.                  *)

NavSizes == {<<1, 1>>, <<3, 1>>, <<2, 3>>}

(* FarmGame.__init__: focused_plot = (0, 0) *)
InitNav ==
    /\ now = Epoch
    /\ farm = None
    /\ player = None
    /\ \/ disk = NoFile
       \/ \E size \in NavSizes :
              disk = save_game(Farm(size[1], size[2]), NewPlayer, Epoch - 5)
    /\ last = NoCall
    /\ passes = 0
    /\ app = [phase |-> "start", session |-> 1, source |-> "none",
              acted |-> 0, focused_plot |-> <<0, 0>>]

(* A navigation key reaches the application.  focused: the focus before. *)
PressKey(key) ==
    /\ Running
    /\ app' = [app EXCEPT !.focused_plot = press(farm, @, key)]
    /\ last' = [op |-> "key", key |-> key, focused |-> app.focused_plot,
                time |-> now]
    /\ UNCHANGED <<now, farm, player, disk, passes>>

NextNav ==
    \/ Mount
    \/ \E key \in NavigationKeys : PressKey(key)

SpecNav == InitNav /\ [][NextNav]_vars

----------------------------------------------------------------------------
(* Starting the program with a config.py that has been edited: the Radish  *)
(* entry of CROPS and the multiplier take other values, main() is run, and *)
(* validate_config is called by whoever calls it.                          *)

ConfigGrowthTimes == {0, 30}
ConfigSeedCosts == {0 - 1, 10, 20}
ConfigSellPrices == {0 - 1, 15}
ConfigUnlockLevels == {0, 1}
ConfigMultipliers == {0 - 1, 7, 11}

Configs ==
    {[TheConfig EXCEPT
        !.CROPS["RADISH"] = CropConfig("Radish", g, c, p, u),
        !.OFFLINE_REWARD_MULTIPLIER = m] :
        g \in ConfigGrowthTimes, c \in ConfigSeedCosts,
        p \in ConfigSellPrices, u \in ConfigUnlockLevels,
        m \in ConfigMultipliers}

(* The process before main() has been entered, with its config module. *)
InitConfig ==
    /\ now = Epoch
    /\ farm = None
    /\ player = None
    /\ disk \in {NoFile, save_game(GameStateFarm, NewPlayer, Epoch - 20)}
    /\ last = NoCall
    /\ passes = 0
    /\ \E c \in Configs :
           app = [phase |-> "process", session |-> 1, source |-> "none",
                  acted |-> 0, config |-> c]

(* main(): app = FarmGame(); app.run().  Nothing of the config is looked   *)
(* at on the way to on_mount.                                              *)
Main ==
    /\ app.phase = "process"
    /\ app' = [app EXCEPT !.phase = "start"]
    /\ last' = [op |-> "main", time |-> now]
    /\ UNCHANGED <<now, farm, player, disk, passes>>

(* validate_config() *)
ValidateConfig ==
    /\ LET r == validate_config(app.config)
       IN  last' = [op |-> "validate_config", ret |-> r.is_valid,
                    errors |-> r.errors, warnings |-> r.warnings,
                    time |-> now]
    /\ UNCHANGED <<now, farm, player, disk, passes, app>>

NextConfig ==
    \/ Main
    \/ ValidateConfig
    \/ Mount

SpecConfig == InitConfig /\ [][NextConfig]_vars

----------------------------------------------------------------------------
(* Properties of the reconciliation pass. *)

Reconciled == last.op = "_process_offline_time"

Elapsed == last.time - last.last_save

Cells(f) == 1..Len(f.plots)

ReadyAt(crop, t) ==
    crop # None /\ t - crop.planted_at >= CROPS[crop.crop_type].growth_time

SameKeys(f, g) ==
    /\ Len(f.plots) = Len(g.plots)
    /\ \A i \in Cells(f) : f.plots[i].pos = g.plots[i].pos

(* The cells a pass cleared: planted before it, empty after it. *)
Cleared(before, after) ==
    SelectSeq(before.plots,
              LAMBDA e : e.crop # None /\ GetPlot(after.plots, e.pos) = None)

RECURSIVE SumCoins(_)
SumCoins(entries) ==
    IF entries = <<>> THEN 0 ELSE Head(entries)[2] + SumCoins(Tail(entries))

(* C1: a pass that is not short-circuited removes exactly the crops with   *)
(* now - planted_at >= growth_time, whenever they became ready: no ready   *)
(* crop remains and every crop that was not ready is still in its cell.    *)
C1_RemovesExactlyReadyCrops ==
    (Reconciled /\ Elapsed >= MIN_OFFLINE_TIME_TO_PROCESS) =>
        /\ SameKeys(farm, last.farm)
        /\ \A i \in Cells(last.farm) :
              farm.plots[i].crop =
                  IF ReadyAt(last.farm.plots[i].crop, last.time)
                  THEN None
                  ELSE last.farm.plots[i].crop
        /\ \A i \in Cells(farm) : ~ReadyAt(farm.plots[i].crop, last.time)

(* A pass removed a crop that was ready before last_save, removed one that *)
(* became ready in the gap, and left a growing crop in its cell.           *)
C1_Witness ==
    /\ Reconciled /\ Elapsed >= MIN_OFFLINE_TIME_TO_PROCESS
    /\ \E i \in Cells(last.farm) :
          LET c == last.farm.plots[i].crop
          IN  /\ c # None
              /\ c.planted_at + CROPS[c.crop_type].growth_time < last.last_save
              /\ farm.plots[i].crop = None
    /\ \E i \in Cells(last.farm) :
          LET c == last.farm.plots[i].crop
          IN  /\ c # None
              /\ ~ReadyAt(c, last.time)
              /\ farm.plots[i].crop = c

(* C2: a pass with now - last_save < MIN_OFFLINE_TIME_TO_PROCESS changes   *)
(* nothing in the farm or the player and returns the zero summary.         *)
C2_ShortGapChangesNothing ==
    (Reconciled /\ Elapsed < MIN_OFFLINE_TIME_TO_PROCESS) =>
        /\ farm = last.farm
        /\ player = last.player
        /\ last.summary.offline_time = 0
        /\ last.summary.auto_harvested = <<>>
        /\ last.summary.total_coins = 0

(* A short-circuited pass on a farm that holds a ready crop. *)
C2_Witness ==
    /\ Reconciled /\ Elapsed < MIN_OFFLINE_TIME_TO_PROCESS /\ Elapsed >= 0
    /\ \E i \in Cells(farm) : ReadyAt(farm.plots[i].crop, last.time)

(* C3: after a pass coins have grown by total_coins, total_coins is the    *)
(* sum of the listed payouts, total_crops_harvested has grown by the       *)
(* number of entries, which is the number of cells cleared, and the        *)
(* entries name the cleared crops in the order of the scan.                *)
C3_SummaryAccountsForPass ==
    Reconciled =>
        LET s == last.summary
            cleared == Cleared(last.farm, farm)
        IN  /\ player.coins = last.player.coins + s.total_coins
            /\ s.total_coins = SumCoins(s.auto_harvested)
            /\ player.total_crops_harvested =
                   last.player.total_crops_harvested + Len(s.auto_harvested)
            /\ Len(s.auto_harvested) = Len(cleared)
            /\ \A k \in 1..Len(cleared) :
                   s.auto_harvested[k][1] = config(cleared[k].crop).name

(* A pass harvested two crops of different kinds. *)
C3_Witness ==
    /\ Reconciled
    /\ Len(last.summary.auto_harvested) = 2
    /\ last.summary.auto_harvested[1][1] # last.summary.auto_harvested[2][1]
    /\ last.summary.total_coins > 0

(* C38: a pass leaves the player's experience, level, unlocked crops and   *)
(* total_crops_planted and the farm's width and height as they were: an    *)
(* auto-harvest pays coins and grants no experience.                       *)
C38_ReconciliationGrantsNoXp ==
    Reconciled =>
        /\ player.experience = last.player.experience
        /\ player.level = last.player.level
        /\ player.unlocked_crops = last.player.unlocked_crops
        /\ player.total_crops_planted = last.player.total_crops_planted
        /\ farm.width = last.farm.width
        /\ farm.height = last.farm.height

(* A pass harvested a crop and paid for it. *)
C38_Witness ==
    /\ Reconciled
    /\ Len(last.summary.auto_harvested) >= 1
    /\ player.coins > last.player.coins
    /\ player.total_crops_harvested > last.player.total_crops_harvested
    /\ player.experience = 0

(* C4: every auto-harvest pays floor(sell_price * 0.7), 70% of the sell    *)
(* price rounded down: Radish 10, Carrot 24, Wheat 42, Tomato 70, Corn     *)
(* 126, Pumpkin 280.                                                       *)
C4_PayoutIsSeventyPercent ==
    Reconciled =>
        \A k \in 1..Len(last.summary.auto_harvested) :
            \E c \in CropTypes :
                /\ CROPS[c].name = last.summary.auto_harvested[k][1]
                /\ last.summary.auto_harvested[k][2] =
                       (CROPS[c].sell_price * 7) \div 10

(* The claim C6 as first stated: a pass lists at most one entry per        *)
(* planted cell, pays the same for a kind however long it has been ready,  *)
(* and a second pass on the farm and player it left (here: left by a pass  *)
(* that was not short-circuited) harvests nothing and leaves coins and     *)
(* total_crops_harvested as they were.                                     *)
SecondPass ==
    /\ Reconciled
    /\ last.prev.op = "_process_offline_time"
    /\ last.prev.time - last.prev.last_save >= MIN_OFFLINE_TIME_TO_PROCESS

OneEntryPerCell ==
    /\ Len(last.summary.auto_harvested) <=
           Cardinality({i \in Cells(last.farm) : last.farm.plots[i].crop # None})
    /\ \A j, k \in 1..Len(last.summary.auto_harvested) :
           last.summary.auto_harvested[j][1] = last.summary.auto_harvested[k][1]
               => last.summary.auto_harvested[j][2] = last.summary.auto_harvested[k][2]

HarvestedNothing ==
    /\ last.summary.auto_harvested = <<>>
    /\ farm = last.farm
    /\ player.coins = last.player.coins
    /\ player.total_crops_harvested = last.player.total_crops_harvested

C6_SecondPassHarvestsNothing ==
    /\ Reconciled => OneEntryPerCell
    /\ SecondPass => HarvestedNothing

(* C6, amended: a pass lists at most one entry per planted cell and pays   *)
(* the same for a kind however long it has been ready; a second pass,      *)
(* after a first that was not short-circuited, harvests only crops that    *)
(* were not ready at the first pass's clock reading, so it harvests        *)
(* nothing and leaves coins and total_crops_harvested as they were when    *)
(* it runs at the same clock reading.                                      *)
C6_SecondPassHarvestsOnlyNewlyReady ==
    /\ Reconciled => OneEntryPerCell
    /\ SecondPass =>
          /\ \A i \in Cells(last.farm) :
                 farm.plots[i].crop # last.farm.plots[i].crop
                     => ~ReadyAt(last.farm.plots[i].crop, last.prev.time)
          /\ last.time = last.prev.time => HarvestedNothing

(* A second pass that was not short-circuited, at the clock reading of a   *)
(* first that harvested a crop ready for two more growth times, and left   *)
(* a growing crop: it harvested nothing.                                   *)
C6_Witness ==
    /\ SecondPass
    /\ Elapsed >= MIN_OFFLINE_TIME_TO_PROCESS
    /\ last.time = last.prev.time
    /\ \E k \in CropTypes :
           \E i \in Cells(last.prev.farm) :
               last.prev.farm.plots[i].crop =
                   Crop(k, last.prev.time - 3 * CROPS[k].growth_time)
    /\ last.prev.summary.auto_harvested # <<>>
    /\ \E i \in Cells(farm) : farm.plots[i].crop # None
    /\ HarvestedNothing

(* C7: the offline_time a pass reports is 0 when now - last_save is under  *)
(* the threshold (also when last_save is later than now) and               *)
(* min(now - last_save, MAX_OFFLINE_TIME) otherwise: never negative, never *)
(* over the cap.                                                           *)
C7_OfflineTimeBounded ==
    Reconciled =>
        /\ last.summary.offline_time >= 0
        /\ last.summary.offline_time <= MAX_OFFLINE_TIME
        /\ last.summary.offline_time =
              IF Elapsed < MIN_OFFLINE_TIME_TO_PROCESS
              THEN 0
              ELSE IF Elapsed <= MAX_OFFLINE_TIME THEN Elapsed ELSE MAX_OFFLINE_TIME

(* A pass with last_save more than 24 hours back reports the cap. *)
C7_Witness ==
    /\ Reconciled
    /\ Elapsed > MAX_OFFLINE_TIME
    /\ last.summary.offline_time = MAX_OFFLINE_TIME

----------------------------------------------------------------------------
(* Properties of the Farm. *)

Planted == last.op = "plant_crop"

(* C9: plant_crop on a coordinate outside the grid or on a cell that holds *)
(* a crop returns False without raising and leaves the farm as it was:     *)
(* every cell, the crop in the way and the dimensions.                     *)
C9_PlantRefusedChangesNothing ==
    (/\ Planted
     /\ \/ ~(0 <= last.x /\ last.x < last.farm.width
              /\ 0 <= last.y /\ last.y < last.farm.height)
        \/ \E i \in Cells(last.farm) :
              /\ last.farm.plots[i].pos = <<last.x, last.y>>
              /\ last.farm.plots[i].crop # None) =>
        /\ last.ret = FALSE
        /\ ~last.raised
        /\ farm = last.farm

(* plant_crop of another kind, at a later time, on a planted cell. *)
C9_Witness ==
    /\ Planted
    /\ last.ret = FALSE
    /\ \E i \in Cells(last.farm) :
          /\ last.farm.plots[i].pos = <<last.x, last.y>>
          /\ last.farm.plots[i].crop # None
          /\ last.farm.plots[i].crop.crop_type # last.crop_type
          /\ last.farm.plots[i].crop.planted_at < last.time
          /\ last.crop_type \in CropTypes

(* C10: plant_crop of a catalog kind on an empty cell of the grid returns  *)
(* True; the cell then holds a crop of that kind planted at the current    *)
(* time, and every other cell and the dimensions are as they were.         *)
C10_PlantFillsTheCell ==
    (/\ Planted
     /\ last.crop_type \in CropTypes
     /\ 0 <= last.x /\ last.x < last.farm.width
     /\ 0 <= last.y /\ last.y < last.farm.height
     /\ \E i \in Cells(last.farm) :
           /\ last.farm.plots[i].pos = <<last.x, last.y>>
           /\ last.farm.plots[i].crop = None) =>
        /\ last.ret = TRUE
        /\ ~last.raised
        /\ farm.width = last.farm.width
        /\ farm.height = last.farm.height
        /\ SameKeys(farm, last.farm)
        /\ \A i \in Cells(farm) :
              farm.plots[i].crop =
                  IF farm.plots[i].pos = <<last.x, last.y>>
                  THEN [crop_type |-> last.crop_type, planted_at |-> last.time]
                  ELSE last.farm.plots[i].crop

(* A crop planted, after the clock moved, at (0, 1) of a farm that holds   *)
(* another crop.                                                           *)
C10_Witness ==
    /\ Planted
    /\ last.ret = TRUE
    /\ last.x = 0 /\ last.y = 1
    /\ last.time > Epoch
    /\ \E i \in Cells(last.farm) : last.farm.plots[i].crop # None

Harvested == last.op = "harvest_crop"

(* The cell (x, y) of f is inside the grid and holds a crop. *)
Occupied(f, x, y) ==
    /\ 0 <= x /\ x < f.width
    /\ 0 <= y /\ y < f.height
    /\ \E i \in Cells(f) : f.plots[i].pos = <<x, y>> /\ f.plots[i].crop # None

(* C11: harvest_crop on an occupied cell of the grid returns the crop that *)
(* was there, ready or not, and empties the cell; on an empty cell or a    *)
(* coordinate outside the grid it returns None and changes nothing; the    *)
(* second of two harvests of the same cell returns None; no other cell and *)
(* no dimension is affected.                                               *)
C11_HarvestTakesTheCrop ==
    Harvested =>
        /\ farm.width = last.farm.width
        /\ farm.height = last.farm.height
        /\ SameKeys(farm, last.farm)
        /\ IF Occupied(last.farm, last.x, last.y)
           THEN /\ last.ret # None
                /\ \A i \in Cells(last.farm) :
                      IF last.farm.plots[i].pos = <<last.x, last.y>>
                      THEN /\ last.ret = last.farm.plots[i].crop
                           /\ farm.plots[i].crop = None
                      ELSE farm.plots[i].crop = last.farm.plots[i].crop
           ELSE /\ last.ret = None
                /\ farm = last.farm
        /\ last.before.again => last.ret = None

(* A growing Radish was harvested beside a ripe one, and the same cell is  *)
(* harvested again.                                                        *)
C11_Witness ==
    /\ Harvested
    /\ last.before.again
    /\ last.before.ret # None
    /\ ~ReadyAt(last.before.ret, last.time)
    /\ last.ret = None
    /\ \E i \in Cells(farm) : ReadyAt(farm.plots[i].crop, last.time)

Expanded == last.op = "expand"

(* C12: expand to a width and a height that are both at most the current   *)
(* ones, the current size included, returns False and leaves the           *)
(* dimensions and every cell as they were.                                 *)
C12_ExpandNotLargerFails ==
    (/\ Expanded
     /\ last.new_width <= last.farm.width
     /\ last.new_height <= last.farm.height) =>
        /\ last.ret = FALSE
        /\ farm = last.farm

(* The farm operations: each records the farm it was called on. *)
FarmOperation ==
    last.op \in {"plant_crop", "harvest_crop", "expand", "_process_offline_time"}

(* C13: expand returns False and changes nothing when the new width or the *)
(* new height is smaller than the current one, also when the other one     *)
(* grows; no farm operation decreases the width or the height.             *)
C13_ExpandNeverShrinks ==
    /\ (/\ Expanded
        /\ \/ last.new_width < last.farm.width
           \/ last.new_height < last.farm.height) =>
           /\ last.ret = FALSE
           /\ farm = last.farm
    /\ FarmOperation =>
           /\ farm.width >= last.farm.width
           /\ farm.height >= last.farm.height

(* expand to a larger width and a smaller height, on a planted farm. *)
C13_Witness ==
    /\ Expanded
    /\ last.new_width > last.farm.width
    /\ last.new_height < last.farm.height
    /\ last.new_height > 0
    /\ last.ret = FALSE
    /\ \E i \in Cells(farm) : farm.plots[i].crop # None

(* The coordinates [0, width) x [0, height) *)
Range(width, height) == (0..(width - 1)) \X (0..(height - 1))

Keys(f) == {f.plots[i].pos : i \in Cells(f)}

NoKeyTwice(f) ==
    \A i, j \in Cells(f) : f.plots[i].pos = f.plots[j].pos => i = j

(* C14: an expand that returns True leaves every cell that existed with    *)
(* its content (the same crop or empty), adds an empty cell for exactly    *)
(* the coordinates of the new range that had none, and stores the new      *)
(* width and height.                                                       *)
C14_ExpandKeepsAndAdds ==
    (Expanded /\ last.ret = TRUE) =>
        /\ farm.width = last.new_width
        /\ farm.height = last.new_height
        /\ NoKeyTwice(farm)
        /\ Len(farm.plots) >= Len(last.farm.plots)
        /\ \A i \in Cells(last.farm) : farm.plots[i] = last.farm.plots[i]
        /\ \A i \in Cells(farm) \ Cells(last.farm) : farm.plots[i].crop = None
        /\ Keys(farm) \ Keys(last.farm) =
               Range(last.new_width, last.new_height) \ Keys(last.farm)

(* A planted 1x2 farm expanded to 2x2. *)
C14_Witness ==
    /\ Expanded
    /\ last.ret = TRUE
    /\ last.farm.width = 1 /\ last.farm.height = 2
    /\ farm.width = 2 /\ farm.height = 2
    /\ \E i \in Cells(last.farm) : last.farm.plots[i].crop # None

(* C15: from a newly constructed farm, after any plant_crop, harvest_crop, *)
(* expand and reconciliation pass, plots has an entry for exactly the      *)
(* coordinates [0, width) x [0, height), each once.                        *)
C15_PlotsCoverTheGrid ==
    /\ Keys(farm) = Range(farm.width, farm.height)
    /\ NoKeyTwice(farm)

(* A farm that was expanded and planted, after a pass that harvested. *)
C15_Witness ==
    /\ last.op = "_process_offline_time"
    /\ last.summary.auto_harvested # <<>>
    /\ Len(farm.plots) > Len(Farm(1, 1).plots)
    /\ \E i \in Cells(farm) :
          farm.plots[i].crop # None /\ farm.plots[i].pos # <<0, 0>>

----------------------------------------------------------------------------
(* Properties of the Player. *)

Spent == last.op = "spend_coins"

(* C16: spend_coins returns True and takes exactly the amount off the      *)
(* coins if and only if the coins are at least the amount; otherwise it    *)
(* returns False and leaves the coins as they were; in both cases every    *)
(* other field of the player is as it was.                                 *)
C16_SpendIffAffordable ==
    Spent =>
        /\ last.ret = TRUE <=> last.player.coins >= last.amount
        /\ player.coins = IF last.player.coins >= last.amount
                          THEN last.player.coins - last.amount
                          ELSE last.player.coins
        /\ player = [last.player EXCEPT !.coins = player.coins]

(* The last coin spent, and one coin too few. *)
C16_Witness ==
    /\ Spent
    /\ last.player.coins > 0
    /\ last.amount = last.player.coins
    /\ last.ret = TRUE
    /\ player.coins = 0
    /\ player.experience > 0

Experienced == last.op = "add_experience"

(* C17: after add_experience with an amount >= 0 on a player of level >= 1 *)
(* the experience is at least 0 and below level * XP_PER_LEVEL, and the    *)
(* level is not lower than before; so it is after every sequence of calls  *)
(* on a new player.                                                        *)
C17_ExperienceNormalized ==
    /\ player.level >= 1
    /\ 0 <= player.experience
    /\ player.experience < player.level * XP_PER_LEVEL
    /\ (Experienced /\ last.amount >= 0 /\ last.player.level >= 1) =>
           player.level >= last.player.level

(* Experience that reaches the threshold of level 2 exactly, on a player   *)
(* who has levelled up before.                                             *)
C17_Witness ==
    /\ Experienced
    /\ last.player.level = 2
    /\ last.player.experience + last.amount = 2 * XP_PER_LEVEL
    /\ player.level = 3
    /\ player.experience = 0

(* The thresholds of the levels from..(to - 1), added up *)
RECURSIVE Thresholds(_, _)
Thresholds(from, to) ==
    IF from >= to THEN 0 ELSE from * XP_PER_LEVEL + Thresholds(from + 1, to)

FreshLevelOne(p) == p.level = 1 /\ p.experience = 0

(* C18: add_experience returns the final level minus the initial level and *)
(* takes off, for each level left, that level's threshold                  *)
(* level * XP_PER_LEVEL, so no XP is lost; on a level-1 player without     *)
(* experience 100 XP gives 1 level (level 2, experience 0), 600 XP gives 3 *)
(* levels (level 4, experience 0) and 50 XP gives none (level 1,           *)
(* experience 50).  No other field changes.                                *)
C18_LevelsGainedAndXpConserved ==
    Experienced =>
        /\ last.ret = player.level - last.player.level
        /\ last.player.experience + last.amount =
               player.experience + Thresholds(last.player.level, player.level)
        /\ player = [last.player EXCEPT !.level = player.level,
                                        !.experience = player.experience]
        /\ (FreshLevelOne(last.player) /\ last.amount = 100) =>
               (last.ret = 1 /\ player.level = 2 /\ player.experience = 0)
        /\ (FreshLevelOne(last.player) /\ last.amount = 600) =>
               (last.ret = 3 /\ player.level = 4 /\ player.experience = 0)
        /\ (FreshLevelOne(last.player) /\ last.amount = 50) =>
               (last.ret = 0 /\ player.level = 1 /\ player.experience = 50)

(* The test's 600 XP on a new player. *)
C18_Witness ==
    /\ Experienced
    /\ FreshLevelOne(last.player)
    /\ last.amount = 600
    /\ last.ret = 3
    /\ player.level = 4

(* C29: in every state of a player, one constructed with a set of its own  *)
(* or restored by from_dict included, unlocked_crops contains RADISH and   *)
(* CARROT; unlock_crop adds its kind and nothing else, and changes nothing *)
(* when the kind is unlocked already.                                      *)
C29_StartingCropsAlwaysUnlocked ==
    /\ {"RADISH", "CARROT"} \subseteq player.unlocked_crops
    /\ last.op = "unlock_crop" =>
           /\ player.unlocked_crops
                  = last.player.unlocked_crops \cup {last.crop_type}
           /\ last.crop_type \in last.player.unlocked_crops =>
                  player = last.player

----------------------------------------------------------------------------
(* Properties of saving and loading. *)

Loaded == last.op = "load_game"

(* The crops of a saved farm dict, in the order of the file. *)
SavedCropsOf(data) == SelectSeq(data.plots, LAMBDA e : e.value # None)

(* The scenario's file at the time of the load: one crop, a Radish planted *)
(* 100 s ago, and a last_save 20 s ago.                                    *)
RadishScenario ==
    /\ Loaded
    /\ last.file.kind = "json"
    /\ last.file.data.last_save = last.time - 20
    /\ Len(SavedCropsOf(last.file.data.farm)) = 1
    /\ SavedCropsOf(last.file.data.farm)[1].value =
           [crop_type |-> "RADISH", planted_at |-> last.time - 100]

(* C5: a farm with one Radish planted 100 s ago is saved, last_save is set *)
(* to now - 20 and the game is loaded: the load succeeds, the Radish's     *)
(* cell and every other cell of the loaded farm is empty, the loaded       *)
(* player has 10 coins more than the saved one, and the summary is the one *)
(* entry ("Radish", 10) with total_coins = 10.                             *)
C5_RadishScenario ==
    RadishScenario =>
        /\ last.ret.loaded
        /\ GetPlot(last.ret.farm.plots,
                   key_pos(SavedCropsOf(last.file.data.farm)[1].key)) = None
        /\ \A i \in Cells(last.ret.farm) : last.ret.farm.plots[i].crop = None
        /\ last.ret.farm.width = last.file.data.farm.width
        /\ last.ret.farm.height = last.file.data.farm.height
        /\ last.ret.player.coins = last.file.data.player.coins + 10
        /\ last.ret.summary.auto_harvested = <<<<"Radish", 10>>>>
        /\ last.ret.summary.total_coins = 10

(* The test's own run: the 4x4 game_state farm, saved and loaded. *)
C5_Witness ==
    /\ RadishScenario
    /\ last.file.data.farm.width = 4
    /\ last.file.data.player.coins = 90
    /\ last.ret.loaded
    /\ last.ret.player.coins = 100

(* load_game called straight after the save_game that wrote the file,     *)
(* less than MIN_OFFLINE_TIME_TO_PROCESS seconds later.                    *)
LoadedSoonAfterSave ==
    /\ Loaded
    /\ last.saved.fresh
    /\ last.time - last.saved.time < MIN_OFFLINE_TIME_TO_PROCESS

(* C20: load_game less than MIN_OFFLINE_TIME_TO_PROCESS seconds after      *)
(* save_game returns a farm with the saved dimensions and the saved crop   *)
(* or nothing in every cell, ready crops included, a player equal to the   *)
(* saved one, and the zero offline summary.                                *)
C20_QuickReloadIsIdentity ==
    LoadedSoonAfterSave =>
        /\ last.ret.loaded
        /\ last.ret.summary = ZeroSummary
        /\ last.ret.farm.width = last.saved.farm.width
        /\ last.ret.farm.height = last.saved.farm.height
        /\ Keys(last.ret.farm) = Keys(last.saved.farm)
        /\ NoKeyTwice(last.ret.farm)
        /\ \A pos \in Keys(last.saved.farm) :
               GetPlot(last.ret.farm.plots, pos) = GetPlot(last.saved.farm.plots, pos)
        /\ last.ret.player = last.saved.player
        /\ farm = last.ret.farm
        /\ player = last.ret.player

(* A farm with two ripe crops, one of them ripe since the save, loaded a   *)
(* second after it was saved.                                              *)
C20_Witness ==
    /\ LoadedSoonAfterSave
    /\ last.time > last.saved.time
    /\ \E i, j \in Cells(last.saved.farm) :
          /\ ReadyAt(last.saved.farm.plots[i].crop, last.saved.time)
          /\ last.saved.farm.plots[j].crop # None
          /\ ~ReadyAt(last.saved.farm.plots[j].crop, last.saved.time)
          /\ ReadyAt(last.saved.farm.plots[j].crop, last.time)
    /\ \E i \in Cells(farm) : ReadyAt(farm.plots[i].crop, last.time)

(* What the file lacks: it does not exist, it is not JSON, a top-level key *)
(* is missing, a key of the farm, of the player or of a crop is missing,   *)
(* or a crop has an unknown crop_type or a negative planted_at.            *)
Unloadable(file) ==
    \/ file.kind \in {"missing", "text"}
    \/ \E k \in TopLevelKeys : k \notin DOMAIN file.data
    \/ \E k \in {"width", "height", "plots"} : k \notin DOMAIN file.data.farm
    \/ \E k \in {"coins", "experience", "level", "total_crops_planted",
                  "total_crops_harvested", "unlocked_crops"} :
           k \notin DOMAIN file.data.player
    \/ \E i \in 1..Len(file.data.farm.plots) :
           LET crop == file.data.farm.plots[i].value
           IN  /\ crop # None
               /\ \/ "crop_type" \notin DOMAIN crop
                  \/ "planted_at" \notin DOMAIN crop
                  \/ crop.crop_type \notin CropTypes
                  \/ crop.planted_at < 0

(* C21: load_game returns None, and with it no farm and no player, when    *)
(* there is no save file, when the file is not JSON, when one of version,  *)
(* last_save, farm and player is missing, and when a key of the farm, the  *)
(* player or a crop is missing or a crop has an unknown crop_type or a     *)
(* negative planted_at; the farm and the player in use stay as they were.  *)
C21_UnloadableGivesNone ==
    (Loaded /\ Unloadable(last.file)) =>
        /\ last.ret.loaded = FALSE
        /\ DOMAIN last.ret = {"loaded", "passes"}
        /\ last.ret.passes = 0

(* A saved Radish whose planted_at was made negative, beside a crop that   *)
(* is intact.                                                              *)
C21_Witness ==
    /\ Loaded
    /\ last.file.kind = "json"
    /\ TopLevelKeys \subseteq DOMAIN last.file.data
    /\ "plots" \in DOMAIN last.file.data.farm
    /\ \E i, j \in 1..Len(last.file.data.farm.plots) :
          /\ last.file.data.farm.plots[i].value =
                 [crop_type |-> "RADISH", planted_at |-> 0 - 5]
          /\ last.file.data.farm.plots[j].value \in
                 {crop_to_dict(c) : c \in SavedCrops}
    /\ last.ret.loaded = FALSE

(* C22: save_game answers every failure of the file system, the creation  *)
(* of the save directory and the writing of the file included, by          *)
(* returning False; it never raises, never changes the farm or the player, *)
(* and returns True only when the snapshot is in the file.                 *)
C22_SaveFailureReturnsFalse ==
    (last.op = "save_game") =>
        /\ ~last.raised
        /\ last.os # "ok" => last.ret = FALSE
        /\ last.ret = TRUE => disk = save_game(last.farm, last.player, last.time)
        /\ farm = last.farm
        /\ player = last.player

----------------------------------------------------------------------------
(* Properties of a crop. *)

Catalog == {"RADISH", "CARROT", "WHEAT", "TOMATO", "CORN", "PUMPKIN"}

(* The crops standing on the farm *)
CropsOf(f) == {f.plots[i].crop : i \in 1..Len(f.plots)} \ {None}

(* C24: constructing a crop with a kind outside the catalog or with a      *)
(* negative planted_at raises and no crop comes to exist; plant_crop with  *)
(* an unknown kind on an empty cell inside the grid raises too, leaves the *)
(* cell empty and puts no crop of another kind there.                      *)
C24_InvalidCropIsRefused ==
    /\ (last.op = "Crop"
            /\ (last.crop_type \notin Catalog \/ last.planted_at < 0)) =>
           /\ last.raised
           /\ last.crop = None
           /\ farm = last.farm
    /\ (last.op = "plant_crop"
            /\ last.crop_type \notin Catalog
            /\ last.x \in 0..(last.farm.width - 1)
            /\ last.y \in 0..(last.farm.height - 1)
            /\ get_crop(last.farm, last.x, last.y) = None) =>
           /\ last.raised
           /\ get_crop(farm, last.x, last.y) = None
           /\ farm = last.farm

(* A Radish with the timestamp -100 is refused, right after plant_crop     *)
(* refused a Melon on the empty plot; the plot is still empty.             *)
C24_Witness ==
    /\ last.op = "Crop"
    /\ last.crop_type = "RADISH"
    /\ last.planted_at = 0 - 100
    /\ last.raised
    /\ last.after_unknown
    /\ get_crop(farm, 0, 0) = None

(* Every crop that stood in a cell of f and stands in that cell of g is   *)
(* in g the crop it was in f.                                              *)
SameWhereKept(f, g) ==
    \A i \in 1..Len(f.plots) :
        LET pos    == f.plots[i].pos
            before == f.plots[i].crop
            after  == get_crop(g, pos[1], pos[2])
        IN  (before # None /\ after # None) =>
                /\ after.crop_type = before.crop_type
                /\ after.planted_at = before.planted_at

(* Every crop of f stands in its cell of g. *)
AllKept(f, g) ==
    \A i \in 1..Len(f.plots) :
        f.plots[i].crop # None =>
            get_crop(g, f.plots[i].pos[1], f.plots[i].pos[2]) # None

(* C28: the kind and planted_at of a crop do not change while it stays in  *)
(* its cell.  plant_crop and harvest_crop leave the crops of all other     *)
(* cells in place and as they were; expand and save_game leave every crop  *)
(* in place and as it was; a reconciliation pass clears a cell or leaves   *)
(* its crop as it was; load_game after save_game gives back, in every cell *)
(* it has not cleared, the crop that was saved.  While the clock advances  *)
(* nothing changes.                                                        *)
C28_CropIsFixedInItsCell ==
    /\ last.op \in {"plant_crop", "harvest_crop", "expand", "save_game",
                     "_process_offline_time"} =>
           SameWhereKept(last.farm, farm)
    /\ last.op \in {"plant_crop", "harvest_crop"} =>
           \A i \in 1..Len(last.farm.plots) :
               last.farm.plots[i].pos # <<last.x, last.y>> =>
                   get_crop(farm, last.farm.plots[i].pos[1],
                            last.farm.plots[i].pos[2])
                       = last.farm.plots[i].crop
    /\ last.op \in {"expand", "save_game"} => AllKept(last.farm, farm)
    /\ (last.op = "load_game" /\ last.saved.fresh) =>
           /\ last.ret.loaded
           /\ SameWhereKept(last.saved.farm, farm)

(* A Radish and a Carrot were saved and ripened for half a minute: after   *)
(* load_game the Radish is gone and the Carrot is in its cell with the     *)
(* planted_at it had.                                                      *)
C28_Witness ==
    /\ last.op = "load_game"
    /\ last.saved.fresh
    /\ \E c, d \in KeepCoords :
           /\ get_crop(last.saved.farm, c[1], c[2]) # None
           /\ get_crop(farm, c[1], c[2]) = None
           /\ get_crop(last.saved.farm, d[1], d[2]) # None
           /\ get_crop(farm, d[1], d[2]) = get_crop(last.saved.farm, d[1], d[2])
           /\ get_crop(farm, d[1], d[2]).planted_at < now
    /\ farm.height = 2

(* The stages in the order of growth *)
StageRank(stage) ==
    CASE stage = "EMPTY"     -> 0
      [] stage = "PLANTED"   -> 1
      [] stage = "SPROUTING" -> 2
      [] stage = "GROWING"   -> 3
      [] stage = "FLOWERING" -> 4
      [] stage = "READY"     -> 5

(* The crop stood on the farm before the last call and stands there still. *)
Stayed(crop) ==
    /\ last.op \in {"sleep", "Crop", "plant_crop", "harvest_crop"}
    /\ crop \in CropsOf(last.farm)
    /\ crop \in CropsOf(farm)

(* C25: for a crop that stays where it is, the growth fraction at a later  *)
(* time is never below the fraction at an earlier time, and it is 0 while  *)
(* the clock is before planted_at; so the stage never goes back to an      *)
(* earlier one, and a crop that was ready is ready still.                  *)
C25_GrowthNeverGoesBack ==
    /\ \A crop \in CropsOf(farm) :
           now < crop.planted_at => growth_progress(crop, now).num = 0
    /\ \A crop \in CropsOf(farm) :
           (Stayed(crop) /\ last.time <= now) =>
               /\ AtLeast(growth_progress(crop, now),
                          growth_progress(crop, last.time))
               /\ StageRank(current_stage(crop, now))
                      >= StageRank(current_stage(crop, last.time))
               /\ is_ready(crop, last.time) => is_ready(crop, now)

(* A crop dated two seconds after the start of the run is still at 0 a     *)
(* second into it.                                                         *)
C25_Witness ==
    /\ last.op = "sleep"
    /\ \E crop \in CropsOf(farm) :
           /\ Stayed(crop)
           /\ crop.planted_at = now + 1
           /\ growth_progress(crop, last.time) = growth_progress(crop, now)
           /\ current_stage(crop, now) = "PLANTED"

(* C26: at every time is_ready holds exactly when the growth fraction is   *)
(* at least 1.0, which is exactly when now - planted_at >= growth_time,    *)
(* and current_stage is READY exactly when is_ready holds.                 *)
C26_ReadyIffFullyGrown ==
    \A crop \in CropsOf(farm) :
        LET f == growth_progress(crop, now)
        IN  /\ is_ready(crop, now) <=> f.num >= f.den
            /\ is_ready(crop, now) <=>
                   now - crop.planted_at >= CROPS[crop.crop_type].growth_time
            /\ current_stage(crop, now) = "READY" <=> is_ready(crop, now)

(* A Radish in the very second it becomes ready: one second earlier it     *)
(* was not.                                                                *)
C26_Witness ==
    /\ last.op = "sleep"
    /\ \E crop \in CropsOf(farm) :
           /\ Stayed(crop)
           /\ crop.crop_type = "RADISH"
           /\ now - crop.planted_at = 30
           /\ is_ready(crop, now)
           /\ ~is_ready(crop, last.time)
           /\ current_stage(crop, last.time) = "FLOWERING"

(* C27: with f the growth fraction, current_stage is PLANTED for f in      *)
(* [0, 0.2), SPROUTING for [0.2, 0.4), GROWING for [0.4, 0.6), FLOWERING   *)
(* for all of [0.6, 1.0) and READY for f >= 1.0; it is never EMPTY.        *)
C27_StageBuckets ==
    \A crop \in CropsOf(farm) :
        LET g     == CROPS[crop.crop_type].growth_time
            e     == IF now > crop.planted_at THEN now - crop.planted_at ELSE 0
            stage == current_stage(crop, now)
        IN  /\ stage # "EMPTY"
            /\ stage = "PLANTED"   <=> 5 * e < g
            /\ stage = "SPROUTING" <=> (g <= 5 * e /\ 5 * e < 2 * g)
            /\ stage = "GROWING"   <=> (2 * g <= 5 * e /\ 5 * e < 3 * g)
            /\ stage = "FLOWERING" <=> (3 * g <= 5 * e /\ e < g)
            /\ stage = "READY"     <=> e >= g

(* A Radish 24 seconds old, at 0.8 of its growth, is FLOWERING; at 17     *)
(* seconds it was GROWING.                                                 *)
C27_Witness ==
    /\ last.op = "sleep"
    /\ \E crop \in CropsOf(farm) :
           /\ crop.crop_type = "RADISH"
           /\ now - crop.planted_at = 24
           /\ current_stage(crop, now) = "FLOWERING"
           /\ current_stage(crop, now - 7) = "GROWING"

----------------------------------------------------------------------------
(* Properties of application sessions. *)

(* load_game would hand this file to the reconciliation pass. *)
Loadable(file) == file.kind # "missing" /\ ~load_raises(file)

Mounted == app.phase \in {"running", "exited"}

(* C8 as stated: in every session that has started up, reconciliation has  *)
(* run exactly once.                                                       *)
C8_ReconciledExactlyOnce == Mounted => passes = 1

(* C8: in a session reconciliation runs at most once, and only inside      *)
(* load_game during on_mount, before any plant or harvest has been         *)
(* handled: once when the save file is loadable, not at all when load_game *)
(* returns None and a new game is created.  The growth tick, the auto-save *)
(* tick, the save on exit and the plant and harvest handlers leave the     *)
(* count of passes as it was.                                              *)
C8_ReconciledAtMostOnceAtStartup ==
    /\ passes <= 1
    /\ app.phase = "start" => passes = 0 /\ app.acted = 0
    /\ Mounted => (passes = 1 <=> app.source = "save")
    /\ last.op = "on_mount" =>
           /\ last.passes = 0 /\ last.acted = 0
           /\ passes = IF Loadable(last.file) THEN 1 ELSE 0
           /\ app.source = IF Loadable(last.file) THEN "save" ELSE "new"
    /\ last.op \in {"_growth_update", "_auto_save", "on_unmount",
                     "_plant_crop", "on_plot_clicked"} =>
           passes = last.passes

(* A session loaded from a save, played, auto-saved and left. *)
C8_Witness ==
    /\ app.phase = "exited"
    /\ last.op = "on_unmount"
    /\ app.source = "save"
    /\ app.acted > 0
    /\ passes = 1
    /\ disk.data.last_save = now

(* C30: neither periodic tick changes the model: after the growth-update  *)
(* tick and after the auto-save tick the farm has the dimensions and the   *)
(* content of every cell it had before, and the player has the value of    *)
(* every field it had before, wherever the tick falls among the plant and  *)
(* harvest actions of the session.                                         *)
C30_TicksChangeNothing ==
    last.op \in {"_growth_update", "_auto_save"} =>
        /\ farm.width = last.farm.width
        /\ farm.height = last.farm.height
        /\ farm.plots = last.farm.plots
        /\ player = last.player

(* A growth tick right after an auto-save, in a session that has planted   *)
(* or harvested, with a ready crop on the farm and a growing one.          *)
C30_Witness ==
    /\ last.op = "_growth_update"
    /\ last.after = "_auto_save"
    /\ app.acted > 0
    /\ Len(get_ready_crops(farm, now)) > 0
    /\ Len(get_ready_crops(farm, now)) < Cardinality(CropsOf(farm))
    /\ disk = save_game(farm, player, now)

(* C23: when load_game returns None, on_mount starts the session from     *)
(* create_new_game: a 4x4 farm whose sixteen cells are all empty, and a    *)
(* player with 100 coins, level 1, experience 0, both totals 0 and the     *)
(* starting crops unlocked; no reconciliation pass has run on it.          *)
C23_NoneStartsNewGame ==
    (last.op = "on_mount" /\ ~Loadable(last.file)) =>
        /\ farm.width = 4 /\ farm.height = 4
        /\ Len(farm.plots) = 16
        /\ \A x \in 0..3 : \A y \in 0..3 :
               HasKey(farm.plots, <<x, y>>) /\ get_crop(farm, x, y) = None
        /\ player = [coins |-> 100, experience |-> 0, level |-> 1,
                     total_crops_planted |-> 0, total_crops_harvested |-> 0,
                     unlocked_crops |-> {"RADISH", "CARROT"}]
        /\ passes = 0
        /\ app.source = "new"

(* A session finds a save file that is not JSON and starts a new game. *)
C23_Witness ==
    /\ last.op = "on_mount"
    /\ last.file.kind = "text"
    /\ app.phase = "running"
    /\ app.source = "new"
    /\ farm = create_new_game.farm

PlantHandled == last.op = "handle" /\ last.message.kind = "_plant_crop"

(* C33: planting through the UI is all or nothing.  After _plant_crop      *)
(* either the cell, empty before, holds a crop of the kind planted at the  *)
(* time of the call, the coins are lower by exactly the seed cost and      *)
(* total_crops_planted is higher by one, everything else being as before;  *)
(* or the farm and the player are exactly as before, which is the case     *)
(* when the coins do not cover the seed or the cell is occupied.  So it is *)
(* for the second of two plant requests queued for the same cell.          *)
C33_PlantIsAllOrNothing ==
    PlantHandled =>
        LET x    == last.message.x
            y    == last.message.y
            kind == last.message.crop_type
            cost == CROPS[kind].seed_cost
        IN  IF last.player.coins >= cost /\ last.before = None
            THEN /\ get_crop(farm, x, y) = Crop(kind, last.time)
                 /\ farm.width = last.farm.width
                 /\ farm.height = last.farm.height
                 /\ Len(farm.plots) = Len(last.farm.plots)
                 /\ \A i \in 1..Len(farm.plots) :
                        farm.plots[i].pos # <<x, y>> =>
                            farm.plots[i] = last.farm.plots[i]
                 /\ player = [last.player EXCEPT
                                 !.coins = @ - cost,
                                 !.total_crops_planted = @ + 1]
            ELSE farm = last.farm /\ player = last.player

(* Two requests for the same cell were queued: the first has planted, the  *)
(* second has found the cell taken and has been refunded.                  *)
C33_Witness ==
    /\ PlantHandled
    /\ last.before = Crop(last.message.crop_type, now)
    /\ last.player.coins >= CROPS[last.message.crop_type].seed_cost
    /\ last.player.total_crops_planted = 1
    /\ player = last.player

ClickHandled == last.op = "handle" /\ last.message.kind = "PlotClicked"

(* All the experience a player has gathered: what the levels reached have  *)
(* cost, 100 for the first, 200 for the second and so on, and what is left.*)
TotalExperience(p) == 50 * p.level * (p.level - 1) + p.experience

(* C34: a manual harvest credits exactly the sell price of the crop it     *)
(* takes from the cell, adds exactly XP_PER_HARVEST = 10 experience and    *)
(* adds one to total_crops_harvested; a second harvest request for the     *)
(* same cell finds it empty and credits nothing, and a harvest request on  *)
(* an empty cell changes neither the farm nor the player.                  *)
C34_HarvestCreditsOnce ==
    ClickHandled =>
        LET x == last.message.x
            y == last.message.y
            harvested ==
                /\ last.message.crop # None
                /\ last.time - last.message.crop.planted_at
                       >= CROPS[last.message.crop.crop_type].growth_time
                /\ last.before # None
        IN  IF harvested
            THEN /\ get_crop(farm, x, y) = None
                 /\ player.coins
                        = last.player.coins + CROPS[last.before.crop_type].sell_price
                 /\ player.total_crops_harvested
                        = last.player.total_crops_harvested + 1
                 /\ TotalExperience(player) = TotalExperience(last.player) + 10
                 /\ player.total_crops_planted = last.player.total_crops_planted
            ELSE farm = last.farm /\ player = last.player

(* Two keys were pressed on a ready Radish: the first message harvested it *)
(* and took the player to level 2, the second has found the cell empty and *)
(* has changed nothing.                                                    *)
C34_Witness ==
    /\ ClickHandled
    /\ last.message.crop # None
    /\ last.message.crop.crop_type = "RADISH"
    /\ last.before = None
    /\ player = last.player
    /\ player.total_crops_harvested = 10
    /\ player.coins = 15 + 15
    /\ player.level = 2

Toward(pos, key) ==
    CASE key \in {"h", "left"}  -> <<pos[1] - 1, pos[2]>>
      [] key \in {"l", "right"} -> <<pos[1] + 1, pos[2]>>
      [] key \in {"k", "up"}    -> <<pos[1], pos[2] - 1>>
      [] key \in {"j", "down"}  -> <<pos[1], pos[2] + 1>>

InGrid(pos) ==
    /\ 0 <= pos[1] /\ pos[1] < farm.width
    /\ 0 <= pos[2] /\ pos[2] < farm.height

(* C32: after any sequence of navigation keys the focused plot is inside   *)
(* the grid; a key moves the focus by exactly one cell in its direction,   *)
(* and a key pressed against the edge leaves the focus where it was.       *)
C32_FocusStaysInGrid ==
    /\ Running => InGrid(app.focused_plot)
    /\ last.op = "key" =>
           app.focused_plot = IF InGrid(Toward(last.focused, last.key))
                              THEN Toward(last.focused, last.key)
                              ELSE last.focused

(* In the bottom-right corner of a grid of several rows and columns, a key *)
(* pressed against the bottom edge.                                        *)
C32_Witness ==
    /\ last.op = "key"
    /\ last.key = "j"
    /\ farm.width > 1 /\ farm.height > 2
    /\ last.focused = <<farm.width - 1, farm.height - 1>>
    /\ app.focused_plot = last.focused

----------------------------------------------------------------------------
(* Properties of the configuration. *)

(* A setting the game must not run with *)
HardError(c) ==
    \/ \E k \in DOMAIN c.CROPS :
           \/ c.CROPS[k].growth_time <= 0
           \/ c.CROPS[k].seed_cost < 0
           \/ c.CROPS[k].sell_price < 0
           \/ c.CROPS[k].unlock_level < 1
    \/ c.OFFLINE_REWARD_MULTIPLIER < 0
    \/ c.OFFLINE_REWARD_MULTIPLIER > 10

(* C31: a configuration with a growth time <= 0, a negative seed cost or   *)
(* sell price, an unlock level below 1 or a multiplier outside [0, 1] is   *)
(* reported as an error before the game runs: with such a configuration    *)
(* the application is never started and no game is loaded or created.  A   *)
(* crop with a negative profit and nothing else wrong is a warning, and    *)
(* the configuration is valid.                                             *)
C31_InvalidConfigNeverRuns ==
    /\ HardError(app.config) => app.phase = "process"
    /\ last.op = "on_mount" => ~HardError(app.config)
    /\ last.op = "validate_config" =>
           /\ last.ret = ~HardError(app.config)
           /\ HardError(app.config) => last.errors # {}
           /\ (~HardError(app.config)
                  /\ app.config.CROPS["RADISH"].sell_price
                         < app.config.CROPS["RADISH"].seed_cost) =>
                  last.ret /\ "RADISH" \in last.warnings

----------------------------------------------------------------------------
(* Properties of a game from its first start. *)

(* The number of plots of a farm that hold a crop *)
OccupiedCells(f) ==
    Cardinality({i \in 1..Len(f.plots) : f.plots[i].crop # None})

(* A step within a session, and the step that mounts a session on the save *)
(* file of the one before.                                                 *)
CountersStep ==
    /\ (player # None /\ player' # None) =>
           /\ player'.total_crops_planted >= player.total_crops_planted
           /\ player'.total_crops_harvested >= player.total_crops_harvested
    /\ (player = None /\ player' # None /\ disk.kind = "json") =>
           /\ player'.total_crops_planted >= disk.data.player.total_crops_planted
           /\ player'.total_crops_harvested
                  >= disk.data.player.total_crops_harvested

(* C36: from a new game on, through plantings and harvests made in the UI, *)
(* ticks, saves, loads and reconciliation, total_crops_planted and         *)
(* total_crops_harvested never decrease, and total_crops_planted is        *)
(* total_crops_harvested plus the number of occupied cells.                *)
C36_CountersAddUp ==
    /\ [](player # None =>
              player.total_crops_planted
                  = player.total_crops_harvested + OccupiedCells(farm))
    /\ [][CountersStep]_vars

(* The second session is mounted on the save of the first, whose Radish    *)
(* was harvested by reconciliation.                                        *)
C36_Witness ==
    /\ last.op = "on_mount"
    /\ app.phase = "running"
    /\ app.session = 2
    /\ passes = 1
    /\ player.total_crops_planted = 1
    /\ player.total_crops_harvested = 1
    /\ OccupiedCells(farm) = 0
    /\ player.coins = STARTING_COINS - 10 + 10

(* The application takes a deferred _plant_crop call off its queue. *)
HandlesPlantCall ==
    /\ player # None
    /\ player' # None
    /\ app.queue # <<>>
    /\ app'.queue = Tail(app.queue)
    /\ Head(app.queue).kind = "_plant_crop"

CoinsStep ==
    /\ (player # None /\ player' # None /\ player'.coins < player.coins) =>
           /\ HandlesPlantCall
           /\ LET call == Head(app.queue)
                  cost == CROPS[call.crop_type].seed_cost
              IN  /\ player.coins >= cost
                  /\ player'.coins = player.coins - cost
                  /\ get_crop(farm, call.x, call.y) = None
                  /\ get_crop(farm', call.x, call.y) # None
    /\ (HandlesPlantCall
           /\ get_crop(farm, Head(app.queue).x, Head(app.queue).y) # None) =>
           /\ player'.coins = player.coins
           /\ farm' = farm
    /\ (player = None /\ player' # None /\ disk.kind = "json") =>
           player'.coins >= disk.data.player.coins

(* C37: from a new game on, through plantings and harvests made in the UI, *)
(* saves, loads and reconciliation, coins is never negative; coins only    *)
(* goes down when _plant_crop pays the seed cost of a crop it plants, and  *)
(* a _plant_crop that finds the plot taken leaves coins as they were.      *)
C37_CoinsNeverNegative ==
    /\ [](player # None => player.coins >= 0)
    /\ [][CoinsStep]_vars

(* The second of two calls for a Radish finds 5 coins and plants nothing. *)
C37_Witness ==
    /\ last.op = "handle"
    /\ last.message.kind = "_plant_crop"
    /\ last.player.coins = 5
    /\ player.coins = 5
    /\ get_crop(last.farm, last.message.x, last.message.y) # None
    /\ farm = last.farm

(* C39: a harvest raises the level by at most one; after every handled    *)
(* message each crop of the catalog whose unlock_level is at most the      *)
(* player's level is in unlocked_crops; and a crop that a seed button      *)
(* planted has an unlock_level that is at most the player's level.         *)
C39_LevelUpUnlocksItsCrop ==
    /\ last.op = "handle" =>
           /\ player.level >= last.player.level
           /\ player.level <= last.player.level + 1
           /\ (last.message.kind = "_plant_crop"
                  /\ last.before = None
                  /\ get_crop(farm, last.message.x, last.message.y) # None) =>
                  CROPS[get_crop(farm, last.message.x, last.message.y).crop_type]
                      .unlock_level <= player.level
    /\ player # None =>
           \A k \in CropTypes :
               CROPS[k].unlock_level <= player.level =>
                   k \in player.unlocked_crops

(* A harvest has brought the player to level 5 and unlocked Corn. *)
C39_Witness ==
    /\ last.op = "handle"
    /\ last.message.kind = "PlotClicked"
    /\ last.player.level = 4
    /\ player.level = 5
    /\ player.experience = 0
    /\ "CORN" \notin last.player.unlocked_crops
    /\ "CORN" \in player.unlocked_crops

----------------------------------------------------------------------------
(* Properties of loaded snapshots. *)

(* The positions of the grid of a farm *)
GridCells(f) == (0..(f.width - 1)) \X (0..(f.height - 1))

(* C35: the farm returned by a successful load_game has an entry for       *)
(* every cell in [0, width) x [0, height) and for no other position,       *)
(* whatever keys the plots of the file had.                                *)
C35_LoadedFarmCoversItsCells ==
    (last.op = "load_game" /\ last.ret.loaded) =>
        /\ Keys(last.ret.farm) = GridCells(last.ret.farm)
        /\ NoKeyTwice(last.ret.farm)

(* The part that holds: no cell of the grid is left without an entry. *)
LoadedFarmHasItsCells ==
    (last.op = "load_game" /\ last.ret.loaded) =>
        GridCells(last.ret.farm) \subseteq Keys(last.ret.farm)

----------------------------------------------------------------------------
(* Properties of serialization. *)

(* C19: to_dict followed by from_dict gives back an equal object: a crop   *)
(* of the same kind and planted_at; a farm of the same width and height    *)
(* with the same content in every cell; a player with the same coins,      *)
(* experience, level, totals and unlocked set.  Nothing is raised.         *)
C19_RoundTripIsEqual ==
    /\ last.op = "crop_round_trip" =>
           /\ ~last.raised
           /\ last.ret.crop_type = last.crop.crop_type
           /\ last.ret.planted_at = last.crop.planted_at
    /\ last.op = "farm_round_trip" =>
           /\ ~last.raised
           /\ farm.width = last.farm.width
           /\ farm.height = last.farm.height
           /\ Keys(farm) = Keys(last.farm)
           /\ NoKeyTwice(farm)
           /\ \A pos \in Keys(last.farm) :
                  GetPlot(farm.plots, pos) = GetPlot(last.farm.plots, pos)
    /\ last.op = "player_round_trip" =>
           /\ player.coins = last.player.coins
           /\ player.experience = last.player.experience
           /\ player.level = last.player.level
           /\ player.total_crops_planted = last.player.total_crops_planted
           /\ player.total_crops_harvested = last.player.total_crops_harvested
           /\ player.unlocked_crops = last.player.unlocked_crops

(* A 2x1 farm expanded to 2x2, with two different crops at (0, 0) and at   *)
(* (1, 0), read back in the order of a new farm.                           *)
C19_Witness ==
    /\ last.op = "farm_round_trip"
    /\ farm.plots # last.farm.plots
    /\ GetPlot(last.farm.plots, <<0, 0>>) # None
    /\ GetPlot(last.farm.plots, <<1, 0>>) # None
    /\ GetPlot(last.farm.plots, <<1, 0>>) # GetPlot(last.farm.plots, <<0, 0>>)
    /\ player.unlocked_crops # STARTING_UNLOCKED_CROPS

====
